---- MODULE Spec2Model ----
(***************************************************************************)
(* Hotel reservation system: JSON-backed stores of hotels, customers and   *)
(* reservations (src/src/storage.py), the entity validators                *)
(* (hotel.py, customer.py, reservation.py) and the service operations of   *)
(* src/src/services.py.  Every service operation re-loads the collections  *)
(* it needs from the files, computes in memory and writes the whole        *)
(* collection back.                                                        *)
(*                                                                         *)
(* A calendar date is modelled by its day of the month (all dates lie in   *)
(* one month), its ISO-8601 form by the triple <<year, month, day>>.       *)
(* The caller is single-threaded: it is idle, calls one operation, which   *)
(* runs to completion, looks at the result and becomes idle again.         *)
(***************************************************************************)
EXTENDS Integers, Sequences, FiniteSets, TLC

VARIABLES hotels,        \* content of hotels.json: the elements of its JSON array
          customers,     \* content of customers.json
          reservations,  \* content of reservations.json
          last,          \* the call the caller has just made and its result
          ids,           \* the hotel and reservation ids the caller works with
          disk,          \* a data file and its temporary file, as raw content
          writer,        \* the position of a write_json_list call in progress
          procs          \* the create_reservation calls of concurrent callers

vars == <<hotels, customers, reservations, last, ids, disk, writer, procs>>

---------------------------------------------------------------------------
(* Bounds of the model *)

MaxDay == 3
MaxRooms == 2

Days == 1..MaxDay

\* room counts the caller passes: none, one and the largest
RoomCounts == {0, 1, MaxRooms}

CustomerIds == {"C1"}
BlankStrings == {"", " "}
Names == {"A", "B"}
Emails == {"a@x", "b@x"}
BadEmails == {"ax"}

---------------------------------------------------------------------------
(* Values *)

None == [none |-> TRUE]
ValueError == [error |-> "ValueError"]
KeyError == [error |-> "KeyError"]
TypeError == [error |-> "TypeError"]
OverflowError == [error |-> "OverflowError"]
Idle == [op |-> "idle"]

\* no data file is looked at on its own
NoDisk == [target |-> [kind |-> "none"], tmp |-> [kind |-> "none"]]

\* an optional argument: Unset is Python's None default, Some(v) a given value
Unset == {}
Some(v) == {v}
Val(arg) == CHOOSE v \in arg : TRUE

\* s.strip() is empty
IsBlank(s) == s \in BlankStrings

\* "@" in email
HasAt(email) == email \in Emails

\* date.isoformat
isoformat(d) == <<2026, 3, d>>

\* date.fromisoformat accepts the text of a calendar date
IsIsoDate(s) == s[1] \in 1..9999 /\ s[2] \in 1..12 /\ s[3] \in 1..31
fromisoformat(s) == s[3]

Min(S) == CHOOSE x \in S : \A y \in S : x <= y

IsEntity(e) == "error" \notin DOMAIN e

---------------------------------------------------------------------------
(* JSON objects.  An object is a record; the value under a key has the     *)
(* type the entity stores (a string for ids, names, emails, an integer     *)
(* for room counts, the ISO text of a date).  A value of another JSON      *)
(* type is written under the key followed by "_" and that type:            *)
(* rooms_total_string |-> "2" is the member "rooms_total": "2".            *)

Typed(key, type) == key \o "_" \o type

JsonTypes == {"string", "number", "float", "null"}

HasKey(data, key) ==
    key \in DOMAIN data \/ \E t \in JsonTypes : Typed(key, t) \in DOMAIN data

\* str(data[key]): a string is itself, a number its decimal text, null "None"
str(data, key) ==
    IF key \in DOMAIN data THEN data[key]
    ELSE IF Typed(key, "number") \in DOMAIN data
         THEN ToString(data[Typed(key, "number")])
    ELSE "None"

\* the integer literals int() parses, surrounding blanks ignored
Literals == [t \in {"1", "2", " 2 "} |-> IF t = "1" THEN 1 ELSE 2]

\* a float is written [whole |-> 2, tenths |-> 7]; Infinity is the float
\* json.loads reads the JSON number 1e999 as
Infinity == [inf |-> TRUE]

\* the exception int(data[key]) raises, "none" when it returns
int_error(data, key) ==
    IF key \in DOMAIN data THEN "none"
    ELSE IF Typed(key, "string") \in DOMAIN data
         THEN IF data[Typed(key, "string")] \in DOMAIN Literals
              THEN "none" ELSE "ValueError"
    ELSE IF Typed(key, "float") \in DOMAIN data
         THEN IF data[Typed(key, "float")] = Infinity
              THEN "OverflowError" ELSE "none"
    ELSE "TypeError"

\* int(data[key]) when it returns: a float is truncated
int(data, key) ==
    IF key \in DOMAIN data THEN data[key]
    ELSE IF Typed(key, "string") \in DOMAIN data
         THEN Literals[data[Typed(key, "string")]]
    ELSE data[Typed(key, "float")].whole

---------------------------------------------------------------------------
(* Entities: construction validates (__post_init__).  Arguments have the   *)
(* types of their annotations: ids, names and emails are strings, room     *)
(* counts are integers, check_in and check_out are dates.                  *)

Hotel(hotel_id, name, rooms_total) ==
    IF IsBlank(hotel_id) THEN ValueError
    ELSE IF IsBlank(name) THEN ValueError
    ELSE IF rooms_total <= 0 THEN ValueError
    ELSE [hotel_id |-> hotel_id, name |-> name, rooms_total |-> rooms_total]

Hotel_to_dict(h) ==
    [hotel_id |-> h.hotel_id, name |-> h.name, rooms_total |-> h.rooms_total]

Hotel_from_dict(data) ==
    IF \E key \in {"hotel_id", "name", "rooms_total"} : ~HasKey(data, key)
    THEN KeyError
    ELSE IF int_error(data, "rooms_total") # "none"
         THEN [error |-> int_error(data, "rooms_total")]
    ELSE Hotel(str(data, "hotel_id"), str(data, "name"), int(data, "rooms_total"))

Customer(customer_id, name, email) ==
    IF IsBlank(customer_id) THEN ValueError
    ELSE IF IsBlank(name) THEN ValueError
    ELSE IF ~HasAt(email) \/ IsBlank(email) THEN ValueError
    ELSE [customer_id |-> customer_id, name |-> name, email |-> email]

Customer_to_dict(c) ==
    [customer_id |-> c.customer_id, name |-> c.name, email |-> c.email]

Customer_from_dict(data) ==
    IF \E key \in {"customer_id", "name", "email"} : ~HasKey(data, key)
    THEN KeyError
    ELSE Customer(str(data, "customer_id"), str(data, "name"), str(data, "email"))

\* a slip: the dates are not compared
Reservation_any_dates(reservation_id, hotel_id, customer_id, check_in, check_out, rooms) ==
    IF IsBlank(reservation_id) THEN ValueError
    ELSE IF IsBlank(hotel_id) THEN ValueError
    ELSE IF IsBlank(customer_id) THEN ValueError
    ELSE IF rooms <= 0 THEN ValueError
    ELSE [reservation_id |-> reservation_id, hotel_id |-> hotel_id,
          customer_id |-> customer_id, check_in |-> check_in,
          check_out |-> check_out, rooms |-> rooms]

Reservation(reservation_id, hotel_id, customer_id, check_in, check_out, rooms) ==
    IF IsBlank(reservation_id) THEN ValueError
    ELSE IF IsBlank(hotel_id) THEN ValueError
    ELSE IF IsBlank(customer_id) THEN ValueError
    ELSE IF check_out <= check_in THEN ValueError
    ELSE IF rooms <= 0 THEN ValueError
    ELSE [reservation_id |-> reservation_id, hotel_id |-> hotel_id,
          customer_id |-> customer_id, check_in |-> check_in,
          check_out |-> check_out, rooms |-> rooms]

\* a slip: both dates are written from check_in
Reservation_to_dict_one_date(r) ==
    [reservation_id |-> r.reservation_id, hotel_id |-> r.hotel_id,
     customer_id |-> r.customer_id, check_in |-> isoformat(r.check_in),
     check_out |-> isoformat(r.check_in), rooms |-> r.rooms]

Reservation_to_dict(r) ==
    [reservation_id |-> r.reservation_id, hotel_id |-> r.hotel_id,
     customer_id |-> r.customer_id, check_in |-> isoformat(r.check_in),
     check_out |-> isoformat(r.check_out), rooms |-> r.rooms]

Reservation_from_dict(data) ==
    IF \E key \in {"reservation_id", "hotel_id", "customer_id", "check_in"} :
          ~HasKey(data, key)
    THEN KeyError
    ELSE IF ~IsIsoDate(data.check_in) THEN ValueError
    ELSE IF ~HasKey(data, "check_out") THEN KeyError
    ELSE IF ~IsIsoDate(data.check_out) THEN ValueError
    ELSE IF ~HasKey(data, "rooms") THEN KeyError
    ELSE IF int_error(data, "rooms") # "none"
         THEN [error |-> int_error(data, "rooms")]
    ELSE Reservation(str(data, "reservation_id"), str(data, "hotel_id"),
                     str(data, "customer_id"), fromisoformat(data.check_in),
                     fromisoformat(data.check_out), int(data, "rooms"))

---------------------------------------------------------------------------
(* Record store *)

\* The content of a path.  Missing: there is no file.  Otherwise the file
\* holds bytes that are not UTF-8 text ("undecodable"), nothing but blanks
\* ("empty"), text that is not JSON ("malformed"), a JSON value that is
\* not an array ("object") or a JSON array of items; "unreadable" is a
\* file whose read fails with OSError.
Missing == [kind |-> "missing"]
JsonArray(items) == [kind |-> "array", items |-> items]
OtherContents == {[kind |-> k] : k \in {"undecodable", "empty", "malformed",
                                         "object", "unreadable"}}

UnicodeDecodeError == [error |-> "UnicodeDecodeError"]

\* isinstance(item, dict): an array element that is not a JSON object is
\* written [nondict |-> TRUE]
IsDict(item) == "nondict" \notin DOMAIN item

\* a missing file is created holding "[]"
ensure_file_exists(file) == IF file = Missing THEN JsonArray(<<>>) ELSE file

\* the exception that leaves read_json_list, "none" when it returns:
\* read_text raises UnicodeDecodeError on bytes that are not UTF-8, which
\* neither except clause catches
read_json_list_raises(file) ==
    IF ensure_file_exists(file).kind = "undecodable"
    THEN UnicodeDecodeError.error ELSE "none"

\* the list read_json_list returns
read_json_list(file) ==
    LET raw == ensure_file_exists(file)
    IN  IF raw.kind = "unreadable" THEN <<>>
        ELSE IF raw.kind = "empty" THEN <<>>
        ELSE IF raw.kind = "malformed" THEN <<>>
        ELSE IF raw.kind # "array" THEN <<>>
        ELSE SelectSeq(raw.items, IsDict)

\* the new content replaces the old one (the write and the replace succeed)
write_json_list(file, data) == JsonArray(data)

\* the loaders skip the entries whose construction raises one of the
\* exceptions they catch; any other exception leaves the loader
\* (load_..._raises names it, "none" when the loader returns its list)
Caught == {KeyError, ValueError, TypeError}
IsUncaught(e) == ~IsEntity(e) /\ e \notin Caught

load_hotels_raises(file) ==
    LET raw == read_json_list(file)
        uncaught == {i \in 1..Len(raw) : IsUncaught(Hotel_from_dict(raw[i]))}
    IN  IF read_json_list_raises(file) # "none" THEN read_json_list_raises(file)
        ELSE IF uncaught # {} THEN Hotel_from_dict(raw[Min(uncaught)]).error
        ELSE "none"

load_hotels(file) ==
    LET raw == read_json_list(file)
    IN  SelectSeq([i \in 1..Len(raw) |-> Hotel_from_dict(raw[i])], IsEntity)

\* a slip: the elements of the file that are not objects are written back
save_hotels_carrying(file, hs) ==
    write_json_list(file,
                    (IF file.kind = "array"
                     THEN SelectSeq(file.items, LAMBDA item : ~IsDict(item))
                     ELSE <<>>) \o [i \in 1..Len(hs) |-> Hotel_to_dict(hs[i])])

save_hotels(file, hs) ==
    write_json_list(file, [i \in 1..Len(hs) |-> Hotel_to_dict(hs[i])])

load_customers_raises(file) ==
    LET raw == read_json_list(file)
        uncaught == {i \in 1..Len(raw) : IsUncaught(Customer_from_dict(raw[i]))}
    IN  IF read_json_list_raises(file) # "none" THEN read_json_list_raises(file)
        ELSE IF uncaught # {} THEN Customer_from_dict(raw[Min(uncaught)]).error
        ELSE "none"

load_customers(file) ==
    LET raw == read_json_list(file)
    IN  SelectSeq([i \in 1..Len(raw) |-> Customer_from_dict(raw[i])], IsEntity)

save_customers(file, cs) ==
    write_json_list(file, [i \in 1..Len(cs) |-> Customer_to_dict(cs[i])])

load_reservations_raises(file) ==
    LET raw == read_json_list(file)
        uncaught == {i \in 1..Len(raw) : IsUncaught(Reservation_from_dict(raw[i]))}
    IN  IF read_json_list_raises(file) # "none" THEN read_json_list_raises(file)
        ELSE IF uncaught # {} THEN Reservation_from_dict(raw[Min(uncaught)]).error
        ELSE "none"

load_reservations(file) ==
    LET raw == read_json_list(file)
    IN  SelectSeq([i \in 1..Len(raw) |-> Reservation_from_dict(raw[i])], IsEntity)

\* a slip: the collection is written newest first
save_reservations_reversed(file, rs) ==
    write_json_list(file, [i \in 1..Len(rs) |-> Reservation_to_dict(rs[Len(rs) + 1 - i])])

\* a slip: the newest reservation is added to what the file holds now
save_reservations_merged(file, rs) ==
    IF rs = <<>> THEN write_json_list(file, <<>>)
    ELSE write_json_list(file, Append(read_json_list(file),
                                      Reservation_to_dict(rs[Len(rs)])))

save_reservations(file, rs) ==
    write_json_list(file, [i \in 1..Len(rs) |-> Reservation_to_dict(rs[i])])

---------------------------------------------------------------------------
(* Find helpers: first match or None *)

_find_hotel(hs, hotel_id) ==
    LET idx == {i \in 1..Len(hs) : hs[i].hotel_id = hotel_id}
    IN  IF idx = {} THEN None ELSE hs[Min(idx)]

_find_customer(cs, customer_id) ==
    LET idx == {i \in 1..Len(cs) : cs[i].customer_id = customer_id}
    IN  IF idx = {} THEN None ELSE cs[Min(idx)]

_find_reservation(rs, reservation_id) ==
    LET idx == {i \in 1..Len(rs) : rs[i].reservation_id = reservation_id}
    IN  IF idx = {} THEN None ELSE rs[Min(idx)]

---------------------------------------------------------------------------
(* Service operations.  S is the content of the three files; the result    *)
(* holds the value returned (ret), the error printed (error, "none" when   *)
(* nothing is printed) and the files afterwards (store).                   *)

\* the three data files exist and hold JSON arrays
Store(hs, cs, rs) ==
    [hotels |-> JsonArray(hs), customers |-> JsonArray(cs),
     reservations |-> JsonArray(rs)]

Failure(S, error) == [ret |-> FALSE, error |-> error, store |-> S]
Success(S) == [ret |-> TRUE, error |-> "none", store |-> S]

\* a slip: the id is not looked up before the hotel is appended
create_hotel_unchecked(S, hotel_id, name, rooms_total) ==
    LET hs == load_hotels(S.hotels)
        hotel == Hotel(hotel_id, name, rooms_total)
    IN  IF hotel = ValueError THEN Failure(S, "InvalidEntity")
        ELSE Success([S EXCEPT !.hotels = save_hotels(S.hotels, Append(hs, hotel))])

create_hotel(S, hotel_id, name, rooms_total) ==
    LET hs == load_hotels(S.hotels)
        hotel == Hotel(hotel_id, name, rooms_total)
    IN  IF _find_hotel(hs, hotel_id) # None THEN Failure(S, "DuplicateId")
        ELSE IF hotel = ValueError THEN Failure(S, "InvalidEntity")
        ELSE Success([S EXCEPT !.hotels = save_hotels(S.hotels, Append(hs, hotel))])

\* a slip: "hotels.pop(0)" once the id is known to be stored
delete_hotel_first(S, hotel_id) ==
    LET hs == load_hotels(S.hotels)
    IN  IF _find_hotel(hs, hotel_id) = None THEN Failure(S, "NotFound")
        ELSE Success([S EXCEPT !.hotels = save_hotels(S.hotels, Tail(hs))])

\* a slip: the reservations of the hotel are deleted with it
delete_hotel_cascade(S, hotel_id) ==
    LET hs == load_hotels(S.hotels)
        kept == SelectSeq(hs, LAMBDA h : h.hotel_id # hotel_id)
        rs == load_reservations(S.reservations)
        others == SelectSeq(rs, LAMBDA r : r.hotel_id # hotel_id)
    IN  IF Len(kept) = Len(hs) THEN Failure(S, "NotFound")
        ELSE Success([S EXCEPT !.hotels = save_hotels(S.hotels, kept),
                               !.reservations = save_reservations(S.reservations, others)])

delete_hotel(S, hotel_id) ==
    LET hs == load_hotels(S.hotels)
        kept == SelectSeq(hs, LAMBDA h : h.hotel_id # hotel_id)
    IN  IF Len(kept) = Len(hs) THEN Failure(S, "NotFound")
        ELSE Success([S EXCEPT !.hotels = save_hotels(S.hotels, kept)])

display_hotel(S, hotel_id) ==
    LET hs == load_hotels(S.hotels)
        hotel == _find_hotel(hs, hotel_id)
    IN  IF hotel = None THEN [ret |-> None, error |-> "NotFound", store |-> S]
        ELSE [ret |-> Hotel_to_dict(hotel), error |-> "none", store |-> S]

\* a slip: the rebuilt record is stored without being validated
modify_hotel_unchecked(S, hotel_id, name, rooms_total) ==
    LET hs == load_hotels(S.hotels)
        hotel == _find_hotel(hs, hotel_id)
        new_name == IF name = Unset THEN hotel.name ELSE Val(name)
        new_rooms == IF rooms_total = Unset THEN hotel.rooms_total ELSE Val(rooms_total)
        updated == [hotel_id |-> hotel.hotel_id, name |-> new_name,
                    rooms_total |-> new_rooms]
        replaced == [i \in 1..Len(hs) |->
                        IF hs[i].hotel_id = hotel_id THEN updated ELSE hs[i]]
    IN  IF hotel = None THEN Failure(S, "NotFound")
        ELSE Success([S EXCEPT !.hotels = save_hotels(S.hotels, replaced)])

\* a slip: a rooms_total below the rooms of a stored reservation is refused
modify_hotel_rechecked(S, hotel_id, name, rooms_total) ==
    LET hs == load_hotels(S.hotels)
        hotel == _find_hotel(hs, hotel_id)
        new_name == IF name = Unset THEN hotel.name ELSE Val(name)
        new_rooms == IF rooms_total = Unset THEN hotel.rooms_total ELSE Val(rooms_total)
        updated == Hotel(hotel.hotel_id, new_name, new_rooms)
        replaced == [i \in 1..Len(hs) |->
                        IF hs[i].hotel_id = hotel_id THEN updated ELSE hs[i]]
        rs == load_reservations(S.reservations)
        refused == \E i \in 1..Len(rs) :
                      rs[i].hotel_id = hotel_id /\ rs[i].rooms > new_rooms
    IN  IF hotel = None THEN Failure(S, "NotFound")
        ELSE IF updated = ValueError THEN Failure(S, "InvalidEntity")
        ELSE IF refused THEN Failure(S, "InsufficientCapacity")
        ELSE Success([S EXCEPT !.hotels = save_hotels(S.hotels, replaced)])

modify_hotel(S, hotel_id, name, rooms_total) ==
    LET hs == load_hotels(S.hotels)
        hotel == _find_hotel(hs, hotel_id)
        new_name == IF name = Unset THEN hotel.name ELSE Val(name)
        new_rooms == IF rooms_total = Unset THEN hotel.rooms_total ELSE Val(rooms_total)
        updated == Hotel(hotel.hotel_id, new_name, new_rooms)
        replaced == [i \in 1..Len(hs) |->
                        IF hs[i].hotel_id = hotel_id THEN updated ELSE hs[i]]
    IN  IF hotel = None THEN Failure(S, "NotFound")
        ELSE IF updated = ValueError THEN Failure(S, "InvalidEntity")
        ELSE Success([S EXCEPT !.hotels = save_hotels(S.hotels, replaced)])

create_customer(S, customer_id, name, email) ==
    LET cs == load_customers(S.customers)
        customer == Customer(customer_id, name, email)
    IN  IF _find_customer(cs, customer_id) # None THEN Failure(S, "DuplicateId")
        ELSE IF customer = ValueError THEN Failure(S, "InvalidEntity")
        ELSE Success([S EXCEPT !.customers =
                          save_customers(S.customers, Append(cs, customer))])

delete_customer(S, customer_id) ==
    LET cs == load_customers(S.customers)
        kept == SelectSeq(cs, LAMBDA c : c.customer_id # customer_id)
    IN  IF Len(kept) = Len(cs) THEN Failure(S, "NotFound")
        ELSE Success([S EXCEPT !.customers = save_customers(S.customers, kept)])

display_customer(S, customer_id) ==
    LET cs == load_customers(S.customers)
        customer == _find_customer(cs, customer_id)
    IN  IF customer = None THEN [ret |-> None, error |-> "NotFound", store |-> S]
        ELSE [ret |-> Customer_to_dict(customer), error |-> "none", store |-> S]

modify_customer(S, customer_id, name, email) ==
    LET cs == load_customers(S.customers)
        customer == _find_customer(cs, customer_id)
        new_name == IF name = Unset THEN customer.name ELSE Val(name)
        new_email == IF email = Unset THEN customer.email ELSE Val(email)
        updated == Customer(customer.customer_id, new_name, new_email)
        replaced == [i \in 1..Len(cs) |->
                        IF cs[i].customer_id = customer_id THEN updated ELSE cs[i]]
    IN  IF customer = None THEN Failure(S, "NotFound")
        ELSE IF updated = ValueError THEN Failure(S, "InvalidEntity")
        ELSE Success([S EXCEPT !.customers = save_customers(S.customers, replaced)])

---------------------------------------------------------------------------
(* Reservations logic *)

\* a slip: tests that the second range starts inside the first
_overlaps_start_inside(a_start, a_end, b_start, b_end) ==
    a_start <= b_start /\ b_start < a_end

\* a slip: the bounds compared with <=, so that touching ranges overlap
_overlaps_closed(a_start, a_end, b_start, b_end) ==
    a_start <= b_end /\ b_start <= a_end

_overlaps(a_start, a_end, b_start, b_end) == a_start < b_end /\ b_start < a_end

\* a slip: "total = res.rooms" for "total += res.rooms", so that only the
\* last overlapping reservation is counted
RECURSIVE _rooms_booked_last_only(_, _, _, _)
_rooms_booked_last_only(rs, hotel_id, check_in, check_out) ==
    IF rs = <<>> THEN 0
    ELSE LET res == rs[Len(rs)]
         IN  IF res.hotel_id = hotel_id
                /\ res.check_in < check_out /\ check_in < res.check_out
             THEN res.rooms
             ELSE _rooms_booked_last_only(SubSeq(rs, 1, Len(rs) - 1), hotel_id,
                                          check_in, check_out)

\* a slip: the hotel_id test is missing, every hotel's reservations count
RECURSIVE _rooms_booked_any_hotel(_, _, _, _)
_rooms_booked_any_hotel(rs, hotel_id, check_in, check_out) ==
    IF rs = <<>> THEN 0
    ELSE LET res == Head(rs)
             rest == _rooms_booked_any_hotel(Tail(rs), hotel_id, check_in, check_out)
         IN  IF res.check_in < check_out /\ check_in < res.check_out
             THEN res.rooms + rest
             ELSE rest

\* a slip: "total += 1" for "total += res.rooms"
RECURSIVE _rooms_booked_count(_, _, _, _)
_rooms_booked_count(rs, hotel_id, check_in, check_out) ==
    IF rs = <<>> THEN 0
    ELSE LET res == Head(rs)
             rest == _rooms_booked_count(Tail(rs), hotel_id, check_in, check_out)
         IN  IF res.hotel_id = hotel_id
                /\ res.check_in < check_out /\ check_in < res.check_out
             THEN 1 + rest
             ELSE rest

\* the rooms of the hotel booked on day d
RECURSIVE _rooms_on_day(_, _, _)
_rooms_on_day(rs, hotel_id, d) ==
    IF rs = <<>> THEN 0
    ELSE LET res == Head(rs)
             rest == _rooms_on_day(Tail(rs), hotel_id, d)
         IN  IF res.hotel_id = hotel_id /\ res.check_in <= d /\ d < res.check_out
             THEN res.rooms + rest
             ELSE rest

\* a slip: the most rooms booked on one day of the range, not the rooms of
\* every reservation that overlaps the range
RECURSIVE _rooms_booked_peak(_, _, _, _)
_rooms_booked_peak(rs, hotel_id, check_in, check_out) ==
    IF check_out <= check_in THEN 0
    ELSE LET first == _rooms_on_day(rs, hotel_id, check_in)
             rest == _rooms_booked_peak(rs, hotel_id, check_in + 1, check_out)
         IN  IF first >= rest THEN first ELSE rest

RECURSIVE _rooms_booked_for_hotel(_, _, _, _)
_rooms_booked_for_hotel(rs, hotel_id, check_in, check_out) ==
    IF rs = <<>> THEN 0
    ELSE LET res == Head(rs)
             rest == _rooms_booked_for_hotel(Tail(rs), hotel_id, check_in, check_out)
         IN  IF res.hotel_id # hotel_id THEN rest
             ELSE IF _overlaps(res.check_in, res.check_out, check_in, check_out)
                  THEN res.rooms + rest
                  ELSE rest

\* a slip: the Reservation is constructed, and so validated, before the
\* lookups
create_reservation_validate_first(S, reservation_id, hotel_id, customer_id, check_in, check_out, rooms) ==
    LET hs == load_hotels(S.hotels)
        cs == load_customers(S.customers)
        rs == load_reservations(S.reservations)
        hotel == _find_hotel(hs, hotel_id)
        reservation == Reservation(reservation_id, hotel_id, customer_id,
                                   check_in, check_out, rooms)
        available == hotel.rooms_total
                        - _rooms_booked_for_hotel(rs, hotel_id, check_in, check_out)
    IN  IF reservation = ValueError THEN Failure(S, "InvalidEntity")
        ELSE IF _find_reservation(rs, reservation_id) # None
             THEN Failure(S, "DuplicateId")
        ELSE IF hotel = None THEN Failure(S, "HotelNotFound")
        ELSE IF _find_customer(cs, customer_id) = None
             THEN Failure(S, "CustomerNotFound")
        ELSE IF reservation.rooms > available
             THEN Failure(S, "InsufficientCapacity")
        ELSE Success([S EXCEPT !.reservations =
                         save_reservations(S.reservations, Append(rs, reservation))])

\* a slip: the reservation is appended and saved before the capacity check
create_reservation_save_first(S, reservation_id, hotel_id, customer_id, check_in, check_out, rooms) ==
    LET hs == load_hotels(S.hotels)
        cs == load_customers(S.customers)
        rs == load_reservations(S.reservations)
        hotel == _find_hotel(hs, hotel_id)
        reservation == Reservation(reservation_id, hotel_id, customer_id,
                                   check_in, check_out, rooms)
        available == hotel.rooms_total
                        - _rooms_booked_for_hotel(rs, hotel_id, check_in, check_out)
        saved == [S EXCEPT !.reservations =
                     save_reservations(S.reservations, Append(rs, reservation))]
    IN  IF _find_reservation(rs, reservation_id) # None THEN Failure(S, "DuplicateId")
        ELSE IF hotel = None THEN Failure(S, "HotelNotFound")
        ELSE IF _find_customer(cs, customer_id) = None
             THEN Failure(S, "CustomerNotFound")
        ELSE IF reservation = ValueError THEN Failure(S, "InvalidEntity")
        ELSE IF reservation.rooms > available
             THEN Failure(saved, "InsufficientCapacity")
        ELSE Success(saved)

\* a slip: the customer is not looked up
create_reservation_any_customer(S, reservation_id, hotel_id, customer_id, check_in, check_out, rooms) ==
    LET hs == load_hotels(S.hotels)
        rs == load_reservations(S.reservations)
        hotel == _find_hotel(hs, hotel_id)
        reservation == Reservation(reservation_id, hotel_id, customer_id,
                                   check_in, check_out, rooms)
        already_booked == _rooms_booked_for_hotel(rs, hotel_id, check_in, check_out)
        available == hotel.rooms_total - already_booked
    IN  IF _find_reservation(rs, reservation_id) # None THEN Failure(S, "DuplicateId")
        ELSE IF hotel = None THEN Failure(S, "HotelNotFound")
        ELSE IF reservation = ValueError THEN Failure(S, "InvalidEntity")
        ELSE IF reservation.rooms > available
             THEN [ret |-> FALSE, error |-> "InsufficientCapacity", store |-> S,
                   requested |-> reservation.rooms, available |-> available]
        ELSE Success([S EXCEPT !.reservations =
                         save_reservations(S.reservations, Append(rs, reservation))])

create_reservation(S, reservation_id, hotel_id, customer_id, check_in, check_out, rooms) ==
    LET hs == load_hotels(S.hotels)
        cs == load_customers(S.customers)
        rs == load_reservations(S.reservations)
        hotel == _find_hotel(hs, hotel_id)
        customer == _find_customer(cs, customer_id)
        reservation == Reservation(reservation_id, hotel_id, customer_id,
                                   check_in, check_out, rooms)
        already_booked == _rooms_booked_for_hotel(rs, hotel_id, check_in, check_out)
        available == hotel.rooms_total - already_booked
    IN  IF _find_reservation(rs, reservation_id) # None THEN Failure(S, "DuplicateId")
        ELSE IF hotel = None THEN Failure(S, "HotelNotFound")
        ELSE IF customer = None THEN Failure(S, "CustomerNotFound")
        ELSE IF reservation = ValueError THEN Failure(S, "InvalidEntity")
        ELSE IF reservation.rooms > available
             THEN [ret |-> FALSE, error |-> "InsufficientCapacity", store |-> S,
                   requested |-> reservation.rooms, available |-> available]
        ELSE Success([S EXCEPT !.reservations =
                         save_reservations(S.reservations, Append(rs, reservation))])

\* a slip: the list is cut at the matching record
cancel_reservation_cut(S, reservation_id) ==
    LET rs == load_reservations(S.reservations)
        idx == {i \in 1..Len(rs) : rs[i].reservation_id = reservation_id}
    IN  IF idx = {} THEN Failure(S, "NotFound")
        ELSE Success([S EXCEPT !.reservations =
                         save_reservations(S.reservations, SubSeq(rs, 1, Min(idx) - 1))])

\* a slip: the record is kept as a tombstone with no rooms
cancel_reservation_tombstone(S, reservation_id) ==
    LET rs == load_reservations(S.reservations)
        marked == [i \in 1..Len(rs) |->
                     IF rs[i].reservation_id = reservation_id
                     THEN [rs[i] EXCEPT !.rooms = 0] ELSE rs[i]]
    IN  IF _find_reservation(rs, reservation_id) = None THEN Failure(S, "NotFound")
        ELSE Success([S EXCEPT !.reservations = save_reservations(S.reservations, marked)])

cancel_reservation(S, reservation_id) ==
    LET rs == load_reservations(S.reservations)
        kept == SelectSeq(rs, LAMBDA r : r.reservation_id # reservation_id)
    IN  IF Len(kept) = Len(rs) THEN Failure(S, "NotFound")
        ELSE Success([S EXCEPT !.reservations = save_reservations(S.reservations, kept)])

---------------------------------------------------------------------------
(* The caller: one action per service operation *)

Files == Store(hotels, customers, reservations)

\* what the caller sees of a result
Outcome(r) == [f \in DOMAIN r \ {"store"} |-> r[f]]

Call(op, args, r) ==
    /\ last = Idle
    /\ hotels' = r.store.hotels.items
    /\ customers' = r.store.customers.items
    /\ reservations' = r.store.reservations.items
    /\ last' = [op |-> op, args |-> args, result |-> Outcome(r)]
    /\ UNCHANGED <<ids, disk, writer, procs>>

CreateHotel(hotel_id, name, rooms_total) ==
    Call("create_hotel",
         [hotel_id |-> hotel_id, name |-> name, rooms_total |-> rooms_total],
         create_hotel(Files, hotel_id, name, rooms_total))

DeleteHotel(hotel_id) ==
    Call("delete_hotel", [hotel_id |-> hotel_id], delete_hotel(Files, hotel_id))

DisplayHotel(hotel_id) ==
    Call("display_hotel", [hotel_id |-> hotel_id], display_hotel(Files, hotel_id))

ModifyHotel(hotel_id, name, rooms_total) ==
    Call("modify_hotel",
         [hotel_id |-> hotel_id, name |-> name, rooms_total |-> rooms_total],
         modify_hotel(Files, hotel_id, name, rooms_total))

CreateCustomer(customer_id, name, email) ==
    Call("create_customer",
         [customer_id |-> customer_id, name |-> name, email |-> email],
         create_customer(Files, customer_id, name, email))

DeleteCustomer(customer_id) ==
    Call("delete_customer", [customer_id |-> customer_id],
         delete_customer(Files, customer_id))

DisplayCustomer(customer_id) ==
    Call("display_customer", [customer_id |-> customer_id],
         display_customer(Files, customer_id))

ModifyCustomer(customer_id, name, email) ==
    Call("modify_customer",
         [customer_id |-> customer_id, name |-> name, email |-> email],
         modify_customer(Files, customer_id, name, email))

CreateReservation(reservation_id, hotel_id, customer_id, check_in, check_out, rooms) ==
    Call("create_reservation",
         [reservation_id |-> reservation_id, hotel_id |-> hotel_id,
          customer_id |-> customer_id, check_in |-> check_in,
          check_out |-> check_out, rooms |-> rooms],
         create_reservation(Files, reservation_id, hotel_id, customer_id,
                            check_in, check_out, rooms))

CancelReservation(reservation_id) ==
    Call("cancel_reservation", [reservation_id |-> reservation_id],
         cancel_reservation(Files, reservation_id))

\* the overlap predicate applied to two date ranges
Overlaps(a_start, a_end, b_start, b_end) ==
    /\ last = Idle
    /\ last' = [op |-> "_overlaps",
                args |-> [a_start |-> a_start, a_end |-> a_end,
                          b_start |-> b_start, b_end |-> b_end],
                result |-> _overlaps(a_start, a_end, b_start, b_end)]
    /\ UNCHANGED <<hotels, customers, reservations, ids, disk, writer, procs>>

\* the caller has looked at the result and is ready for the next call
Return ==
    /\ last # Idle
    /\ last' = Idle
    /\ UNCHANGED <<hotels, customers, reservations, ids, disk, writer, procs>>

---------------------------------------------------------------------------
(* Arguments the caller passes *)

\* A run of the caller works with a fixed choice of hotel and reservation ids
Ids(hs, rs) == [hotels |-> hs, reservations |-> rs]

HotelIdArgs == ids.hotels \cup {" "}
CustomerIdArgs == CustomerIds \cup {" "}
ReservationIdArgs == ids.reservations \cup {" "}
NameArgs == {"A", " "}
EmailArgs == {"a@x", "ax"}
NewNameArgs == Names \cup {" "}
OptArgs(S) == {Unset} \cup {Some(v) : v \in S}

Request(r, h, c, ci, co, k) ==
    [reservation_id |-> r, hotel_id |-> h, customer_id |-> c,
     check_in |-> ci, check_out |-> co, rooms |-> k]

\* the stays [check_in, check_out) of at least one night
Stays == {d \in Days \X Days : d[1] < d[2]}

\* requests whose fields all have a valid form
WellFormedRequests ==
    {Request(r, h, c, d[1], d[2], k) :
        r \in ids.reservations, h \in ids.hotels, c \in CustomerIds,
        d \in Stays, k \in RoomCounts \ {0}}

\* requests with any combination of blank ids, empty or reversed stays and
\* no rooms
MalformedRequests ==
    {Request(r, h, c, d[1], d[2], k) :
        r \in {"R1", " "}, h \in {"H1", " "}, c \in {"C1", " "},
        d \in {<<1, 2>>, <<2, 2>>, <<2, 1>>}, k \in {0, 1}}

ReservationRequests == WellFormedRequests \cup MalformedRequests

\* the three data files exist and hold the empty list
InitWith(choices) ==
    /\ hotels = <<>>
    /\ customers = <<>>
    /\ reservations = <<>>
    /\ last = Idle
    /\ ids \in choices
    /\ disk = NoDisk
    /\ writer = Idle
    /\ procs = <<>>

HotelCalls ==
    \/ \E h \in HotelIdArgs, n \in NameArgs, k \in RoomCounts : CreateHotel(h, n, k)
    \/ \E h \in HotelIdArgs : DeleteHotel(h)
    \/ \E h \in HotelIdArgs : DisplayHotel(h)
    \/ \E h \in HotelIdArgs, n \in OptArgs(NewNameArgs), k \in OptArgs(RoomCounts) :
          ModifyHotel(h, n, k)

CustomerCalls ==
    \/ \E c \in CustomerIdArgs, n \in NameArgs, e \in EmailArgs : CreateCustomer(c, n, e)
    \/ \E c \in CustomerIdArgs : DeleteCustomer(c)
    \/ \E c \in CustomerIdArgs : DisplayCustomer(c)
    \/ \E c \in CustomerIdArgs, n \in OptArgs(NameArgs), e \in OptArgs(EmailArgs) :
          ModifyCustomer(c, n, e)

ReservationCalls ==
    \/ \E q \in ReservationRequests :
          CreateReservation(q.reservation_id, q.hotel_id, q.customer_id,
                            q.check_in, q.check_out, q.rooms)
    \/ \E r \in ReservationIdArgs : CancelReservation(r)

\* Every service operation, in any order
Init == InitWith({Ids({"H1"}, {"R1", "R2"}), Ids({"H1", "H2"}, {"R1"})})

Next == HotelCalls \/ CustomerCalls \/ ReservationCalls \/ Return

Spec == Init /\ [][Next]_vars

\* The caller never modifies or deletes a hotel or a customer
InitCreateCancel ==
    InitWith({Ids({"H1", "H2"}, {"R1", "R2"}), Ids({"H1"}, {"R1", "R2", "R3"})})

NextCreateCancel ==
    \/ \E h \in HotelIdArgs, n \in NameArgs, k \in RoomCounts : CreateHotel(h, n, k)
    \/ \E c \in CustomerIdArgs, n \in NameArgs, e \in EmailArgs : CreateCustomer(c, n, e)
    \/ ReservationCalls
    \/ Return

SpecCreateCancel == InitCreateCancel /\ [][NextCreateCancel]_vars

\* The caller never deletes a hotel or a customer
InitNoDelete == InitWith({Ids({"H1"}, {"R1", "R2"}), Ids({"H1", "H2"}, {"R1"})})

NextNoDelete ==
    \/ \E h \in HotelIdArgs, n \in NameArgs, k \in RoomCounts : CreateHotel(h, n, k)
    \/ \E h \in HotelIdArgs : DisplayHotel(h)
    \/ \E h \in HotelIdArgs, n \in OptArgs(NewNameArgs), k \in OptArgs(RoomCounts) :
          ModifyHotel(h, n, k)
    \/ \E c \in CustomerIdArgs, n \in NameArgs, e \in EmailArgs : CreateCustomer(c, n, e)
    \/ \E c \in CustomerIdArgs : DisplayCustomer(c)
    \/ \E c \in CustomerIdArgs, n \in OptArgs(NameArgs), e \in OptArgs(EmailArgs) :
          ModifyCustomer(c, n, e)
    \/ ReservationCalls
    \/ Return

SpecNoDelete == InitNoDelete /\ [][NextNoDelete]_vars

\* The overlap predicate on arbitrary pairs of dates
InitOverlaps == InitWith({Ids({}, {})})

NextOverlaps ==
    \/ \E a_start \in 1..MaxDay + 1, a_end \in 1..MaxDay + 1,
          b_start \in 1..MaxDay + 1, b_end \in 1..MaxDay + 1 :
          Overlaps(a_start, a_end, b_start, b_end)
    \/ Return

SpecOverlaps == InitOverlaps /\ [][NextOverlaps]_vars

\* Collections as the caller may find them in the files: records the
\* service wrote, together with records edited by hand that repeat an id,
\* hold an invalid value, lack a key or are not objects.  The caller
\* modifies hotels and customers.
MaxRecords == 3

StoredHotels ==
    {[hotel_id |-> h, name |-> n, rooms_total |-> 1] : h \in {"H1", "H2"}, n \in Names}
        \cup {[hotel_id |-> "H1", name |-> " ", rooms_total |-> 1],
              [hotel_id |-> "H2", name |-> "A", rooms_total |-> 0],
              [hotel_id |-> "H1", name |-> "A"],
              [nondict |-> TRUE]}

StoredCustomers ==
    {[customer_id |-> "C1", name |-> n, email |-> e] : n \in Names, e \in Emails}
        \cup {[customer_id |-> "C1", name |-> " ", email |-> "a@x"],
              [customer_id |-> "C1", name |-> "A", email |-> "ax"],
              [customer_id |-> "C1", email |-> "a@x"],
              [nondict |-> TRUE]}

Arrays(items) == UNION {[1..n -> items] : n \in 0..MaxRecords}

InitLoaded ==
    /\ \/ hotels \in Arrays(StoredHotels) /\ customers = <<>>
       \/ hotels = <<>> /\ customers \in Arrays(StoredCustomers)
    /\ reservations = <<>>
    /\ last = Idle
    /\ ids = Ids({"H1", "H2"}, {})
    /\ disk = NoDisk
    /\ writer = Idle
    /\ procs = <<>>

NextLoaded ==
    \/ \E h \in HotelIdArgs, n \in OptArgs(NewNameArgs), k \in OptArgs(RoomCounts) :
          ModifyHotel(h, n, k)
    \/ \E c \in CustomerIdArgs, n \in OptArgs(NewNameArgs),
          e \in OptArgs(Emails \cup BadEmails) : ModifyCustomer(c, n, e)
    \/ Return

SpecLoaded == InitLoaded /\ [][NextLoaded]_vars

---------------------------------------------------------------------------
(* Service calls whose save may fail.  write_json_list catches the OSError *)
(* that write_text or replace raises, prints it and returns; the service   *)
(* operation does not learn of it and returns what it returns after a      *)
(* save that succeeded.                                                    *)

SaveOutcomes == {"none", "OSError"}

\* write_json_list when write_text or replace raises OSError: the file at
\* the path keeps its content
write_json_list_caught(file, data) == ensure_file_exists(file)

\* the files after an operation that computed the result r from the files
\* S, when its save met the outcome io
Saved(S, r, io) ==
    IF io = "none" THEN r.store
    ELSE [f \in DOMAIN S |-> write_json_list_caught(S[f], r.store[f].items)]

Saving(op, args, r) ==
    \E io \in SaveOutcomes :
        /\ last = Idle
        /\ hotels' = Saved(Files, r, io).hotels.items
        /\ customers' = Saved(Files, r, io).customers.items
        /\ reservations' = Saved(Files, r, io).reservations.items
        /\ last' = [op |-> op, args |-> args, result |-> Outcome(r)]
        /\ UNCHANGED <<ids, disk, writer, procs>>

InitSaving == InitWith({Ids({"H1"}, {"R1", "R2"}), Ids({"H1", "H2"}, {"R1"})})

NextSaving ==
    \/ \E h \in HotelIdArgs, n \in NameArgs, k \in RoomCounts :
          Saving("create_hotel", [hotel_id |-> h, name |-> n, rooms_total |-> k],
                 create_hotel(Files, h, n, k))
    \/ \E h \in HotelIdArgs :
          Saving("delete_hotel", [hotel_id |-> h], delete_hotel(Files, h))
    \/ \E h \in HotelIdArgs :
          Saving("display_hotel", [hotel_id |-> h], display_hotel(Files, h))
    \/ \E c \in CustomerIdArgs, n \in NameArgs, e \in EmailArgs :
          Saving("create_customer", [customer_id |-> c, name |-> n, email |-> e],
                 create_customer(Files, c, n, e))
    \/ \E c \in CustomerIdArgs :
          Saving("delete_customer", [customer_id |-> c], delete_customer(Files, c))
    \/ \E c \in CustomerIdArgs :
          Saving("display_customer", [customer_id |-> c], display_customer(Files, c))
    \/ \E q \in ReservationRequests :
          Saving("create_reservation", q,
                 create_reservation(Files, q.reservation_id, q.hotel_id,
                                    q.customer_id, q.check_in, q.check_out, q.rooms))
    \/ \E r \in ReservationIdArgs :
          Saving("cancel_reservation", [reservation_id |-> r],
                 cancel_reservation(Files, r))
    \/ Return

SpecSaving == InitSaving /\ [][NextSaving]_vars

---------------------------------------------------------------------------
(* Loading a data file on its own: the file at the path is in any of the   *)
(* conditions a caller may find it in, and the caller reads it with        *)
(* read_json_list or with one of the entity loaders.                       *)

\* array elements: records of the three entities, valid, with an invalid
\* value, without a key, with a value of another JSON type, and a
\* non-object
StoredItems ==
    {[nondict |-> TRUE],
     [hotel_id |-> "H1", name |-> "A", rooms_total |-> 1],
     [hotel_id |-> "H2", name |-> "A", rooms_total |-> 0],
     [hotel_id |-> "H1", rooms_total |-> 1],
     [hotel_id |-> "H1", name |-> "A", rooms_total_string |-> " 2 "],
     [hotel_id |-> "H1", name |-> "A", rooms_total_string |-> "x"],
     [hotel_id |-> "H1", name |-> "A", rooms_total_null |-> TRUE],
     [hotel_id |-> "H1", name |-> "A", rooms_total_float |-> [whole |-> 2, tenths |-> 7]],
     [hotel_id |-> "H1", name |-> "A", rooms_total_float |-> Infinity],
     [hotel_id_number |-> 5, name |-> "A", rooms_total |-> 1],
     [customer_id |-> "C1", name |-> "A", email |-> "a@x"],
     [customer_id |-> "C1", name |-> "A", email |-> "ax"],
     [reservation_id |-> "R1", hotel_id |-> "H1", customer_id |-> "C1",
      check_in |-> <<2026, 3, 1>>, check_out |-> <<2026, 3, 2>>, rooms |-> 1],
     [reservation_id |-> "R1", hotel_id |-> "H1", customer_id |-> "C1",
      check_in |-> <<2026, 3, 2>>, check_out |-> <<2026, 3, 1>>, rooms |-> 1],
     [reservation_id |-> "R1", hotel_id |-> "H1", customer_id |-> "C1",
      check_in |-> <<2026, 13, 1>>, check_out |-> <<2026, 3, 2>>, rooms |-> 1],
     [reservation_id |-> "R1", hotel_id |-> "H1", customer_id |-> "C1",
      check_in |-> <<2026, 3, 1>>, check_out |-> <<2026, 3, 2>>,
      rooms_float |-> Infinity]}

RawFiles == {Missing} \cup OtherContents \cup {JsonArray(a) : a \in Arrays(StoredItems)}

\* what a function called on the file at the path gives the caller
Returned(raises, ret) ==
    IF raises # "none" THEN [raises |-> raises] ELSE [raises |-> "none", ret |-> ret]

Load(op, raises, ret) ==
    /\ last = Idle
    /\ last' = [op |-> op, args |-> [file |-> disk.target],
                result |-> Returned(raises, ret)]
    /\ disk' = [disk EXCEPT !.target = ensure_file_exists(disk.target)]
    /\ UNCHANGED <<hotels, customers, reservations, ids, writer, procs>>

ReadJsonList ==
    Load("read_json_list", read_json_list_raises(disk.target), read_json_list(disk.target))

LoadHotelsFile ==
    Load("load_hotels", load_hotels_raises(disk.target), load_hotels(disk.target))

LoadCustomersFile ==
    Load("load_customers", load_customers_raises(disk.target),
         load_customers(disk.target))

LoadReservationsFile ==
    Load("load_reservations", load_reservations_raises(disk.target),
         load_reservations(disk.target))

InitLoad ==
    /\ hotels = <<>>
    /\ customers = <<>>
    /\ reservations = <<>>
    /\ last = Idle
    /\ ids = Ids({}, {})
    /\ disk \in {[target |-> f, tmp |-> Missing] : f \in RawFiles}
    /\ writer = Idle
    /\ procs = <<>>

NextLoad ==
    \/ ReadJsonList
    \/ LoadHotelsFile
    \/ LoadCustomersFile
    \/ LoadReservationsFile
    \/ Return

SpecLoad == InitLoad /\ [][NextLoad]_vars

---------------------------------------------------------------------------
(* Saving a data file on its own: write_json_list step by step.  Every     *)
(* file operation either succeeds or fails with OSError.                   *)

\* arguments of write_json_list: a value that is not a list, or a list of
\* dicts that is plain, holds a set (json.dumps raises TypeError), holds
\* itself (json.dumps raises ValueError: circular reference) or holds a
\* string with a lone surrogate (write_text raises UnicodeEncodeError)
WriteArgs ==
    {[list |-> FALSE]}
        \cup {[list |-> TRUE, items |-> a, flaw |-> "none"] :
                 a \in {<<>>, <<[hotel_id |-> "H1", name |-> "A", rooms_total |-> 1]>>,
                        <<[hotel_id |-> "H2", name |-> "B", rooms_total |-> 1]>>}}
        \cup {[list |-> TRUE, items |-> <<[hotel_id |-> "H1"]>>, flaw |-> f] :
                 f \in {"set", "circular", "surrogate"}}

\* the exception json.dumps raises on the data, "none" when it returns
json_dumps_raises(data) ==
    IF data.flaw = "set" THEN "TypeError"
    ELSE IF data.flaw = "circular" THEN "ValueError"
    ELSE "none"

\* a file that was being written when the write failed
Partial == [kind |-> "partial"]
Empty == [kind |-> "empty"]

WriteStep(pc, fields) ==
    /\ writer # Idle
    /\ writer.pc = pc
    /\ writer' = fields @@ writer
    /\ UNCHANGED <<hotels, customers, reservations, last, ids, procs>>

\* the call, and ensure_file_exists(path): a missing file is created
\* holding "[]" unless that fails
WriteJsonList(data) ==
    /\ writer = Idle
    /\ writer' = [op |-> "write_json_list", pc |-> "isinstance", data |-> data,
                  before |-> disk.target, replaced |-> FALSE]
    /\ \E created \in {ensure_file_exists(disk.target), disk.target} :
          disk' = [disk EXCEPT !.target = created]
    /\ UNCHANGED <<hotels, customers, reservations, last, ids, procs>>

\* if not isinstance(data, list): return
IsInstance ==
    /\ WriteStep("isinstance",
                 [pc |-> IF writer.data.list THEN "dumps" ELSE "returned"])
    /\ UNCHANGED disk

\* payload = json.dumps(data, ...): TypeError is caught, ValueError is not
Dumps ==
    /\ WriteStep("dumps",
                 [pc |-> CASE json_dumps_raises(writer.data) = "TypeError" -> "except"
                           [] json_dumps_raises(writer.data) = "ValueError" -> "raised"
                           [] OTHER -> "write_text"])
    /\ UNCHANGED disk

\* tmp_path.write_text(payload): the temporary file is opened, which
\* empties it, and the payload is encoded and written
WriteText ==
    \/ /\ WriteStep("write_text", [pc |-> "except"])
       /\ \E left \in {disk.tmp, Empty, Partial} : disk' = [disk EXCEPT !.tmp = left]
    \/ /\ WriteStep("write_text", [pc |-> "raised"])
       /\ writer.data.flaw = "surrogate"
       /\ disk' = [disk EXCEPT !.tmp = Empty]
    \/ /\ WriteStep("write_text", [pc |-> "replace"])
       /\ writer.data.flaw # "surrogate"
       /\ disk' = [disk EXCEPT !.tmp = JsonArray(writer.data.items)]

\* tmp_path.replace(path)
Replace ==
    \/ /\ WriteStep("replace", [pc |-> "returned", replaced |-> TRUE])
       /\ disk' = [target |-> disk.tmp, tmp |-> Missing]
    \/ /\ WriteStep("replace", [pc |-> "except"])
       /\ UNCHANGED disk

\* except (OSError, TypeError): the temporary file is removed if it exists,
\* unless that fails too
Except ==
    /\ WriteStep("except", [pc |-> "returned"])
    /\ \E left \in {Missing, disk.tmp} : disk' = [disk EXCEPT !.tmp = left]

\* the caller goes on after the call has returned or raised
WriteOver ==
    /\ writer # Idle
    /\ writer.pc \in {"returned", "raised"}
    /\ writer' = Idle
    /\ UNCHANGED <<hotels, customers, reservations, last, ids, disk, procs>>

InitSave ==
    /\ hotels = <<>>
    /\ customers = <<>>
    /\ reservations = <<>>
    /\ last = Idle
    /\ ids = Ids({}, {})
    /\ disk \in {[target |-> f, tmp |-> Missing] :
                    f \in {Missing, JsonArray(<<>>), [kind |-> "malformed"]}}
    /\ writer = Idle
    /\ procs = <<>>

NextSave ==
    \/ \E data \in WriteArgs : WriteJsonList(data)
    \/ IsInstance
    \/ Dumps
    \/ WriteText
    \/ Replace
    \/ Except
    \/ WriteOver

SpecSave == InitSave /\ [][NextSave]_vars

---------------------------------------------------------------------------
(* The entity constructors on their own: from_dict is given a fields map   *)
(* and, when it accepts it, the entity is turned back with to_dict.        *)

NoField == [key \in {} |-> TRUE]

\* the members a fields map may hold for a key: the value may have the
\* entity's type or another one, and the member may be absent
StringMembers(key, values) ==
    {[k \in {key} |-> v] : v \in values}
        \cup {[k \in {Typed(key, "number")} |-> 5],
              [k \in {Typed(key, "null")} |-> TRUE], NoField}

IntegerMembers(key) ==
    {[k \in {key} |-> v] : v \in RoomCounts}
        \cup {[k \in {Typed(key, "string")} |-> t] : t \in {"1", " 2 ", "x"}}
        \cup {[k \in {Typed(key, "float")} |-> f] :
                 f \in {[whole |-> 2, tenths |-> 7], Infinity}}
        \cup {[k \in {Typed(key, "null")} |-> TRUE], NoField}

DateMembers(key) ==
    {[k \in {key} |-> t] : t \in {isoformat(d) : d \in Days} \cup {<<2026, 13, 1>>}}
        \cup {NoField}

\* a member the entities do not know
Extras == {NoField, [note |-> "x"]}

HotelFields ==
    {a @@ b @@ c @@ x : a \in StringMembers("hotel_id", {"H1", " "}),
                        b \in StringMembers("name", {"A", " "}),
                        c \in IntegerMembers("rooms_total"), x \in Extras}

CustomerFields ==
    {a @@ b @@ c @@ x : a \in StringMembers("customer_id", {"C1", " "}),
                        b \in StringMembers("name", {"A", " "}),
                        c \in StringMembers("email", Emails \cup BadEmails),
                        x \in Extras}

ReservationFields ==
    {[reservation_id |-> "R1"] @@ a @@ [customer_id |-> "C1"] @@ b @@ c @@ d @@ x :
        a \in StringMembers("hotel_id", {"H1", " "}),
        b \in DateMembers("check_in"), c \in DateMembers("check_out"),
        d \in IntegerMembers("rooms"), x \in Extras}

\* the caller builds an entity from the fields and turns it back
RoundTrip(op, fields, entity, back) ==
    /\ last = Idle
    /\ last' = [op |-> op, args |-> [fields |-> fields],
                result |-> IF IsEntity(entity)
                           THEN [error |-> "none", entity |-> entity, back |-> back]
                           ELSE [error |-> entity.error]]
    /\ UNCHANGED <<hotels, customers, reservations, ids, disk, writer, procs>>

HotelRoundTrip(fields) ==
    RoundTrip("Hotel.from_dict", fields, Hotel_from_dict(fields),
              Hotel_to_dict(Hotel_from_dict(fields)))

CustomerRoundTrip(fields) ==
    RoundTrip("Customer.from_dict", fields, Customer_from_dict(fields),
              Customer_to_dict(Customer_from_dict(fields)))

ReservationRoundTrip(fields) ==
    RoundTrip("Reservation.from_dict", fields, Reservation_from_dict(fields),
              Reservation_to_dict(Reservation_from_dict(fields)))

InitEntities == InitWith({Ids({}, {})})

NextEntities ==
    \/ \E fields \in HotelFields : HotelRoundTrip(fields)
    \/ \E fields \in CustomerFields : CustomerRoundTrip(fields)
    \/ \E fields \in ReservationFields : ReservationRoundTrip(fields)
    \/ Return

SpecEntities == InitEntities /\ [][NextEntities]_vars

---------------------------------------------------------------------------
(* Concurrent callers.  Each caller makes one create_reservation call; the *)
(* call is a sequence of steps (the three loads, the checks in memory, the *)
(* save), and the steps of the two calls interleave in any order.  Nothing *)
(* locks the files.                                                        *)

Callers == {1, 2}

\* the call of caller p is at position pc
At(p, pc) == procs # <<>> /\ procs[p].pc = pc

Step(p, fields) ==
    /\ procs' = [procs EXCEPT ![p] = fields @@ procs[p]]
    /\ UNCHANGED <<last, ids, disk, writer>>

\* create_reservation is called
Enter(p, q) ==
    /\ At(p, "idle")
    /\ Step(p, [pc |-> "load_hotels", args |-> q])
    /\ UNCHANGED <<hotels, customers, reservations>>

\* hotels = load_hotels()
LoadHotels(p) ==
    /\ At(p, "load_hotels")
    /\ Step(p, [pc |-> "load_customers", hotels |-> load_hotels(JsonArray(hotels))])
    /\ UNCHANGED <<hotels, customers, reservations>>

\* customers = load_customers()
LoadCustomers(p) ==
    /\ At(p, "load_customers")
    /\ Step(p, [pc |-> "load_reservations",
                customers |-> load_customers(JsonArray(customers))])
    /\ UNCHANGED <<hotels, customers, reservations>>

\* reservations = load_reservations()
LoadReservations(p) ==
    /\ At(p, "load_reservations")
    /\ Step(p, [pc |-> "check",
                reservations |-> load_reservations(JsonArray(reservations))])
    /\ UNCHANGED <<hotels, customers, reservations>>

\* the files a caller's loaded lists were read from
Snapshot(c) ==
    Store([i \in 1..Len(c.hotels) |-> Hotel_to_dict(c.hotels[i])],
          [i \in 1..Len(c.customers) |-> Customer_to_dict(c.customers[i])],
          [i \in 1..Len(c.reservations) |-> Reservation_to_dict(c.reservations[i])])

\* the checks of create_reservation on the lists the caller holds
Check(p) ==
    /\ At(p, "check")
    /\ LET q == procs[p].args
           r == create_reservation(Snapshot(procs[p]), q.reservation_id, q.hotel_id,
                                   q.customer_id, q.check_in, q.check_out, q.rooms)
       IN  IF r.ret THEN Step(p, [pc |-> "save"])
           ELSE Step(p, [pc |-> "done", result |-> Outcome(r)])
    /\ UNCHANGED <<hotels, customers, reservations>>

\* reservations.append(reservation); save_reservations(reservations)
\* a slip: the new reservation is appended to the file as it is now
Save_reloaded(p) ==
    /\ At(p, "save")
    /\ LET q == procs[p].args
           reservation == Reservation(q.reservation_id, q.hotel_id, q.customer_id,
                                      q.check_in, q.check_out, q.rooms)
       IN  reservations' =
               save_reservations(JsonArray(reservations),
                                 Append(load_reservations(JsonArray(reservations)),
                                        reservation)).items
    /\ Step(p, [pc |-> "done", result |-> Outcome(Success(Files))])
    /\ UNCHANGED <<hotels, customers>>

Save(p) ==
    /\ At(p, "save")
    /\ LET q == procs[p].args
           reservation == Reservation(q.reservation_id, q.hotel_id, q.customer_id,
                                      q.check_in, q.check_out, q.rooms)
       IN  reservations' =
               save_reservations(JsonArray(reservations),
                                 Append(procs[p].reservations, reservation)).items
    /\ Step(p, [pc |-> "done", result |-> Outcome(Success(Files))])
    /\ UNCHANGED <<hotels, customers>>

\* one hotel, one customer and at most one reservation are stored
InitRace ==
    /\ \E k \in RoomCounts \ {0} :
          hotels = <<[hotel_id |-> "H1", name |-> "A", rooms_total |-> k]>>
    /\ customers = <<[customer_id |-> "C1", name |-> "A", email |-> "a@x"]>>
    /\ reservations \in {<<>>, <<Reservation_to_dict(
                                      Reservation("R0", "H1", "C1", 1, 2, 1))>>}
    /\ last = Idle
    /\ ids = Ids({"H1"}, {"R1", "R2"})
    /\ disk = NoDisk
    /\ writer = Idle
    /\ procs = [p \in Callers |-> [pc |-> "idle"]]

NextRace ==
    \E p \in Callers :
        \/ \E q \in WellFormedRequests : Enter(p, q)
        \/ LoadHotels(p)
        \/ LoadCustomers(p)
        \/ LoadReservations(p)
        \/ Check(p)
        \/ Save(p)

SpecRace == InitRace /\ [][NextRace]_vars

---------------------------------------------------------------------------
(* Two callers, each making one create_reservation or cancel_reservation   *)
(* call, step by step and in any interleaving.                             *)

\* cancel_reservation is called
EnterCancel(p, reservation_id) ==
    /\ At(p, "idle")
    /\ Step(p, [pc |-> "cancel_load", args |-> [reservation_id |-> reservation_id]])
    /\ UNCHANGED <<hotels, customers, reservations>>

\* reservations = load_reservations()
CancelLoad(p) ==
    /\ At(p, "cancel_load")
    /\ Step(p, [pc |-> "cancel_check",
                reservations |-> load_reservations(JsonArray(reservations))])
    /\ UNCHANGED <<hotels, customers, reservations>>

\* the list is filtered and its length compared
CancelCheck(p) ==
    /\ At(p, "cancel_check")
    /\ IF _find_reservation(procs[p].reservations, procs[p].args.reservation_id) = None
       THEN Step(p, [pc |-> "done", result |-> Outcome(Failure(Files, "NotFound"))])
       ELSE Step(p, [pc |-> "cancel_save"])
    /\ UNCHANGED <<hotels, customers, reservations>>

\* save_reservations(reservations)
CancelSave(p) ==
    /\ At(p, "cancel_save")
    /\ reservations' =
          save_reservations(JsonArray(reservations),
                            SelectSeq(procs[p].reservations,
                                      LAMBDA r : r.reservation_id
                                                    # procs[p].args.reservation_id)).items
    /\ Step(p, [pc |-> "done", result |-> Outcome(Success(Files))])
    /\ UNCHANGED <<hotels, customers>>

\* the ids a caller may cancel: the stored one and one that is not stored
CancelIds == {"R0", "R1"}

NextMutations ==
    \E p \in Callers :
        \/ \E q \in WellFormedRequests : Enter(p, q)
        \/ LoadHotels(p)
        \/ LoadCustomers(p)
        \/ LoadReservations(p)
        \/ Check(p)
        \/ Save(p)
        \/ \E r \in CancelIds : EnterCancel(p, r)
        \/ CancelLoad(p)
        \/ CancelCheck(p)
        \/ CancelSave(p)

SpecMutations == InitRace /\ [][NextMutations]_vars

---------------------------------------------------------------------------
(* One data file was edited by hand, or damaged, before the caller starts: *)
(* it holds invalid entries or is no JSON array at all.  The caller then   *)
(* runs the operations of that file's collection.  disk holds the raw      *)
(* content of the file, and its content before the last call.              *)

StoredReservations ==
    {[reservation_id |-> r, hotel_id |-> "H1", customer_id |-> "C1",
      check_in |-> <<2026, 3, 1>>, check_out |-> <<2026, 3, 2>>, rooms |-> 1] :
        r \in {"R1", "R2"}}
        \cup {[reservation_id |-> "R1", hotel_id |-> "H1", customer_id |-> "C1",
               check_in |-> <<2026, 3, 2>>, check_out |-> <<2026, 3, 1>>, rooms |-> 1],
              [reservation_id |-> "R2", hotel_id |-> "H1", customer_id |-> "C1",
               check_in |-> <<2026, 3, 1>>, check_out |-> <<2026, 3, 2>>, rooms |-> 0],
              [reservation_id |-> "R1", hotel_id |-> "H1", customer_id |-> "C1",
               check_in |-> <<2026, 3, 1>>, rooms |-> 1],
              [nondict |-> TRUE]}

\* contents that read_json_list reads as the empty list
NotArrays == {[kind |-> k] : k \in {"empty", "malformed", "object"}}

EditedFile(items) == NotArrays \cup {JsonArray(a) : a \in Arrays(items)}

\* the array elements of a file, none when it is no array
Items(file) == IF file.kind = "array" THEN file.items ELSE <<>>

\* the three files, the edited one with its raw content
EditedFiles == [Files EXCEPT ![disk.path] = disk.target]

CallEdited(op, args, r) ==
    /\ last = Idle
    /\ hotels' = Items(r.store.hotels)
    /\ customers' = Items(r.store.customers)
    /\ reservations' = Items(r.store.reservations)
    /\ disk' = [disk EXCEPT !.target = r.store[disk.path], !.before = disk.target]
    /\ last' = [op |-> op, args |-> args, result |-> Outcome(r)]
    /\ UNCHANGED <<ids, writer, procs>>

InitEdited ==
    /\ \/ /\ disk \in {[path |-> "hotels", target |-> f, before |-> f] :
                          f \in EditedFile(StoredHotels)}
          /\ hotels = Items(disk.target)
          /\ customers = <<>>
          /\ reservations = <<>>
       \/ /\ disk \in {[path |-> "customers", target |-> f, before |-> f] :
                          f \in EditedFile(StoredCustomers)}
          /\ hotels = <<>>
          /\ customers = Items(disk.target)
          /\ reservations = <<>>
       \/ /\ disk \in {[path |-> "reservations", target |-> f, before |-> f] :
                          f \in EditedFile(StoredReservations)}
          /\ hotels = <<[hotel_id |-> "H1", name |-> "A", rooms_total |-> MaxRooms]>>
          /\ customers = <<[customer_id |-> "C1", name |-> "A", email |-> "a@x"]>>
          /\ reservations = Items(disk.target)
    /\ last = Idle
    /\ ids = Ids({"H1", "H2"}, {"R1", "R2"})
    /\ writer = Idle
    /\ procs = <<>>

NextEdited ==
    \/ /\ disk.path = "hotels"
       /\ \/ \E h \in HotelIdArgs, n \in NameArgs, k \in RoomCounts :
                CallEdited("create_hotel",
                           [hotel_id |-> h, name |-> n, rooms_total |-> k],
                           create_hotel(EditedFiles, h, n, k))
          \/ \E h \in HotelIdArgs :
                CallEdited("delete_hotel", [hotel_id |-> h],
                           delete_hotel(EditedFiles, h))
          \/ \E h \in HotelIdArgs :
                CallEdited("display_hotel", [hotel_id |-> h],
                           display_hotel(EditedFiles, h))
          \/ \E h \in HotelIdArgs, n \in OptArgs(NewNameArgs), k \in OptArgs(RoomCounts) :
                CallEdited("modify_hotel",
                           [hotel_id |-> h, name |-> n, rooms_total |-> k],
                           modify_hotel(EditedFiles, h, n, k))
    \/ /\ disk.path = "customers"
       /\ \/ \E c \in CustomerIdArgs, n \in NameArgs, e \in EmailArgs :
                CallEdited("create_customer",
                           [customer_id |-> c, name |-> n, email |-> e],
                           create_customer(EditedFiles, c, n, e))
          \/ \E c \in CustomerIdArgs :
                CallEdited("delete_customer", [customer_id |-> c],
                           delete_customer(EditedFiles, c))
          \/ \E c \in CustomerIdArgs :
                CallEdited("display_customer", [customer_id |-> c],
                           display_customer(EditedFiles, c))
          \/ \E c \in CustomerIdArgs, n \in OptArgs(NewNameArgs),
                e \in OptArgs(Emails \cup BadEmails) :
                CallEdited("modify_customer",
                           [customer_id |-> c, name |-> n, email |-> e],
                           modify_customer(EditedFiles, c, n, e))
    \/ /\ disk.path = "reservations"
       /\ \/ \E q \in ReservationRequests :
                CallEdited("create_reservation", q,
                           create_reservation(EditedFiles, q.reservation_id,
                                              q.hotel_id, q.customer_id, q.check_in,
                                              q.check_out, q.rooms))
          \/ \E r \in ReservationIdArgs :
                CallEdited("cancel_reservation", [reservation_id |-> r],
                           cancel_reservation(EditedFiles, r))
    \/ Return

SpecEdited == InitEdited /\ [][NextEdited]_vars

TypeOK ==
    /\ \A i \in 1..Len(hotels) : Hotel_from_dict(hotels[i]) # ValueError
    /\ \A i \in 1..Len(customers) : Customer_from_dict(customers[i]) # ValueError
    /\ \A i \in 1..Len(reservations) : Reservation_from_dict(reservations[i]) # ValueError

---------------------------------------------------------------------------
(* Notions the properties are stated with *)

RECURSIVE SumOver(_, _)
SumOver(I, f) ==
    IF I = {} THEN 0
    ELSE LET i == CHOOSE j \in I : TRUE IN f[i] + SumOver(I \ {i}, f)

\* the day of the month of a stored ISO date
DayOf(iso) == iso[3]

\* the days of the half-open range [start, end)
DaysIn(start, end) == {d \in 1..MaxDay + 1 : start <= d /\ d < end}

\* the days of the stay of a stored reservation record
Stay(rec) == DaysIn(DayOf(rec.check_in), DayOf(rec.check_out))

\* rooms of hotel hotel_id taken on day d by the records of file
BookedOn(file, hotel_id, d) ==
    SumOver({i \in 1..Len(file) : file[i].hotel_id = hotel_id /\ d \in Stay(file[i])},
            [i \in 1..Len(file) |-> file[i].rooms])

\* rooms of hotel hotel_id taken by the records of file whose stay shares a
\* day with [start, end)
Committed(file, hotel_id, start, end) ==
    SumOver({i \in 1..Len(file) : /\ file[i].hotel_id = hotel_id
                                  /\ Stay(file[i]) \cap DaysIn(start, end) # {}},
            [i \in 1..Len(file) |-> file[i].rooms])

HasId(file, field, id) == \E i \in 1..Len(file) : file[i][field] = id

Called(op) == last.op = op
Succeeded(op) == last.op = op /\ last.result.error = "none"

---------------------------------------------------------------------------
(* C1: capacity invariant.  When hotels are only created, never modified   *)
(* or deleted, on every day the rooms of the stored reservations of a      *)
(* hotel whose stay contains that day sum to at most the hotel's           *)
(* rooms_total.                                                            *)

CapacityInvariant ==
    \A i \in 1..Len(hotels) : \A d \in Days :
        BookedOn(reservations, hotels[i].hotel_id, d) <= hotels[i].rooms_total

\* a third reservation was admitted into a hotel that is now full on a day
\* shared by two reservations
CapacityInvariantWitness ==
    /\ Succeeded("create_reservation")
    /\ Len(reservations) = 3
    /\ \E i \in 1..Len(hotels) : \E d \in Days :
          /\ BookedOn(reservations, hotels[i].hotel_id, d) = hotels[i].rooms_total
          /\ Cardinality({j \in 1..Len(reservations) :
                             /\ reservations[j].hotel_id = hotels[i].hotel_id
                             /\ d \in Stay(reservations[j])}) = 2

---------------------------------------------------------------------------
(* Conditions of a create_reservation request q, read off the files *)

ValidRequest(q) ==
    /\ q.reservation_id \notin BlankStrings
    /\ q.hotel_id \notin BlankStrings
    /\ q.customer_id \notin BlankStrings
    /\ q.check_in < q.check_out
    /\ q.rooms >= 1

\* rooms_total of the stored hotel hotel_id
HotelTotal(file, hotel_id) ==
    file[CHOOSE i \in 1..Len(file) : file[i].hotel_id = hotel_id].rooms_total

\* rooms left for q once the stored reservations that share a day with it
\* are taken off
RoomsLeft(q) ==
    HotelTotal(hotels, q.hotel_id)
        - Committed(reservations, q.hotel_id, q.check_in, q.check_out)

PassesChecks(q) ==
    /\ ~HasId(reservations, "reservation_id", q.reservation_id)
    /\ HasId(hotels, "hotel_id", q.hotel_id)
    /\ HasId(customers, "customer_id", q.customer_id)
    /\ ValidRequest(q)

\* the record a reservation request is stored as
StoredAs(q) ==
    [reservation_id |-> q.reservation_id, hotel_id |-> q.hotel_id,
     customer_id |-> q.customer_id, check_in |-> <<2026, 3, q.check_in>>,
     check_out |-> <<2026, 3, q.check_out>>, rooms |-> q.rooms]

Reordered(file, p) == [i \in 1..Len(file) |-> file[p[i]]]

---------------------------------------------------------------------------
(* C2: admission criterion.  A create_reservation request that passes the  *)
(* duplicate-id, hotel, customer and validation checks succeeds exactly    *)
(* when rooms <= rooms_total minus the rooms of the stored reservations    *)
(* of the same hotel that share a day with the requested stay; the order   *)
(* of the stored reservations does not change the outcome.                 *)

AdmissionCriterion ==
    [][(last'.op = "create_reservation" /\ PassesChecks(last'.args)) =>
          LET q == last'.args
          IN  /\ (last'.result.ret = TRUE) <=> (q.rooms <= RoomsLeft(q))
              /\ \A p \in Permutations(1..Len(reservations)) :
                    create_reservation(
                        Store(hotels, customers, Reordered(reservations, p)),
                        q.reservation_id, q.hotel_id, q.customer_id,
                        q.check_in, q.check_out, q.rooms).ret = last'.result.ret]_vars

\* a request admitted while the file held a reservation that counts against
\* it and one that does not
AdmissionWitness ==
    /\ Succeeded("create_reservation")
    /\ \E i \in 1..Len(reservations) - 1 :
          /\ reservations[i].hotel_id = last.args.hotel_id
          /\ Stay(reservations[i])
                \cap DaysIn(last.args.check_in, last.args.check_out) # {}
    /\ \E j \in 1..Len(reservations) - 1 :
          \/ reservations[j].hotel_id # last.args.hotel_id
          \/ Stay(reservations[j])
                \cap DaysIn(last.args.check_in, last.args.check_out) = {}

---------------------------------------------------------------------------
(* C3: order of the failure conditions of create_reservation.  The         *)
(* conditions are DuplicateId, NotFound(hotel), NotFound(customer),        *)
(* InvalidEntity, InsufficientCapacity, in this order, and the error       *)
(* reported is that of the first condition the request violates.           *)

FailureReasons ==
    <<"DuplicateId", "HotelNotFound", "CustomerNotFound", "InvalidEntity",
      "InsufficientCapacity">>

Violates(q, k) ==
    CASE k = 1 -> HasId(reservations, "reservation_id", q.reservation_id)
      [] k = 2 -> ~HasId(hotels, "hotel_id", q.hotel_id)
      [] k = 3 -> ~HasId(customers, "customer_id", q.customer_id)
      [] k = 4 -> ~ValidRequest(q)
      [] k = 5 -> HasId(hotels, "hotel_id", q.hotel_id) /\ q.rooms > RoomsLeft(q)

Violated(q) == {k \in 1..5 : Violates(q, k)}

ExpectedError(q) ==
    IF Violated(q) = {} THEN "none"
    ELSE FailureReasons[CHOOSE k \in Violated(q) : \A j \in Violated(q) : k <= j]

FirstFailureWins ==
    [][last'.op = "create_reservation" =>
          last'.result.error = ExpectedError(last'.args)]_vars

\* a request with a stored id, an unknown hotel, an unknown customer and an
\* empty stay is reported as a duplicate
FirstFailureWitness ==
    /\ Called("create_reservation")
    /\ last.result.error = "DuplicateId"
    /\ Violated(last.args) = {1, 2, 3, 4}

---------------------------------------------------------------------------
(* C4: no partial writes.  A service operation that fails leaves the three *)
(* files as they were; a create_reservation that writes has passed every   *)
(* check.                                                                  *)

NoPartialWrites ==
    [][last' # Idle =>
          /\ last'.result.error # "none" =>
                /\ hotels' = hotels
                /\ customers' = customers
                /\ reservations' = reservations
          /\ (last'.op = "create_reservation" /\ reservations' # reservations) =>
                Violated(last'.args) = {}]_vars

\* a request turned down for lack of rooms by a hotel that holds a
\* reservation
NoPartialWritesWitness ==
    /\ Called("create_reservation")
    /\ last.result.error = "InsufficientCapacity"
    /\ Len(reservations) >= 1
    /\ ~HasId(reservations, "reservation_id", last.args.reservation_id)

---------------------------------------------------------------------------
(* C5: the overlap predicate is symmetric and half-open.  For two ranges   *)
(* with start < end it gives the same answer with the ranges swapped, it   *)
(* is true exactly when some day lies in both ranges, and a range ending   *)
(* on day D does not overlap a range starting on day D.                    *)

OverlapSymmetricHalfOpen ==
    Called("_overlaps") =>
        LET a == last.args
        IN  (a.a_start < a.a_end /\ a.b_start < a.b_end) =>
               /\ last.result = _overlaps(a.b_start, a.b_end, a.a_start, a.a_end)
               /\ last.result =
                     (DaysIn(a.a_start, a.a_end) \cap DaysIn(a.b_start, a.b_end) # {})
               /\ (a.a_end = a.b_start => last.result = FALSE)

\* a range that ends on the day the other starts
OverlapTouchingWitness ==
    /\ Called("_overlaps")
    /\ last.args.a_start < last.args.a_end
    /\ last.args.a_end = last.args.b_start
    /\ last.args.b_start < last.args.b_end
    /\ last.result = FALSE

---------------------------------------------------------------------------
(* C6: cancel_reservation succeeds exactly when a reservation with the id  *)
(* is stored; it then removes that record and leaves the others as they    *)
(* were and in their order, and a second cancel of the same id fails       *)
(* NotFound; when no record matches it fails NotFound and writes nothing.  *)

CancelContract ==
    [][last'.op = "cancel_reservation" =>
          LET id == last'.args.reservation_id
              stored == HasId(reservations, "reservation_id", id)
              again == cancel_reservation(Store(hotels', customers', reservations'), id)
          IN  /\ (last'.result.ret = TRUE) <=> stored
              /\ stored =>
                    /\ \E k \in 1..Len(reservations) :
                          /\ reservations[k].reservation_id = id
                          /\ reservations' = SubSeq(reservations, 1, k - 1)
                                \o SubSeq(reservations, k + 1, Len(reservations))
                    /\ again.ret = FALSE
                    /\ again.error = "NotFound"
              /\ ~stored =>
                    /\ last'.result.error = "NotFound"
                    /\ reservations' = reservations
              /\ hotels' = hotels
              /\ customers' = customers]_vars

\* one of three reservations was cancelled
CancelWitness ==
    /\ Succeeded("cancel_reservation")
    /\ Len(reservations) = 2

---------------------------------------------------------------------------
(* C7: capacity after a successful create_reservation, whatever was done   *)
(* to the hotels before.                                                   *)

\* C7 as stated: after every successful create_reservation, for every
\* stored hotel and every day the rooms of its stored reservations whose
\* stay contains the day sum to at most its rooms_total.
CapacityAfterCreate ==
    Succeeded("create_reservation") => CapacityInvariant

\* C7 amended: after every successful create_reservation, for the hotel of
\* the request and every day of the requested stay the rooms of its stored
\* reservations whose stay contains the day sum to at most its rooms_total.
CapacityOfRequestedStay ==
    Succeeded("create_reservation") =>
        \A d \in DaysIn(last.args.check_in, last.args.check_out) :
            BookedOn(reservations, last.args.hotel_id, d)
                <= HotelTotal(hotels, last.args.hotel_id)

\* a request admitted by a hotel that is over-committed on another day
CapacityOfRequestedStayWitness ==
    /\ Succeeded("create_reservation")
    /\ \E d \in Days :
          BookedOn(reservations, last.args.hotel_id, d)
              > HotelTotal(hotels, last.args.hotel_id)

---------------------------------------------------------------------------
(* C8: a successful create_reservation of r rooms for hotel H over a stay  *)
(* lowers the availability of H (rooms_total minus the rooms booked) by r  *)
(* over every range that shares a day with the stay and leaves it as it    *)
(* was over the other ranges and for the other hotels; cancelling the      *)
(* reservation right away gives the availability before the call.          *)

Available(S, hotel_id, check_in, check_out) ==
    HotelTotal(S.hotels.items, hotel_id)
        - _rooms_booked_for_hotel(load_reservations(S.reservations), hotel_id,
                                  check_in, check_out)

AvailabilityDelta ==
    [][(last'.op = "create_reservation" /\ last'.result.error = "none") =>
          LET q == last'.args
              after == Store(hotels', customers', reservations')
              undone == cancel_reservation(after, q.reservation_id)
          IN  /\ undone.ret = TRUE
              /\ \A i \in 1..Len(hotels), range \in Stays :
                    LET h == hotels[i].hotel_id
                        shares == DaysIn(range[1], range[2])
                                     \cap DaysIn(q.check_in, q.check_out) # {}
                        taken == IF h = q.hotel_id /\ shares THEN q.rooms ELSE 0
                    IN  /\ Available(after, h, range[1], range[2])
                              = Available(Files, h, range[1], range[2]) - taken
                        /\ Available(undone.store, h, range[1], range[2])
                              = Available(Files, h, range[1], range[2])]_vars

\* several rooms were booked in one of two hotels that hold a reservation
\* each
AvailabilityWitness ==
    /\ Succeeded("create_reservation")
    /\ last.args.rooms > 1
    /\ Len(hotels) = 2
    /\ Len(reservations) = 2
    /\ reservations[1].hotel_id # reservations[2].hotel_id

---------------------------------------------------------------------------
(* C9: a successful create_reservation changes the reservations file       *)
(* only: it then holds the records it held before, in the same order,      *)
(* followed by the new reservation.                                        *)

AppendsReservation ==
    [][(last'.op = "create_reservation" /\ last'.result.error = "none") =>
          /\ reservations' = Append(reservations, StoredAs(last'.args))
          /\ hotels' = hotels
          /\ customers' = customers]_vars

\* a second reservation was stored
AppendsReservationWitness ==
    /\ Succeeded("create_reservation")
    /\ Len(reservations) = 2
    /\ reservations[2].reservation_id = last.args.reservation_id

---------------------------------------------------------------------------
(* C10: outcomes of the hotel and customer operations.  A create fails     *)
(* when the id is stored and otherwise, for valid fields, appends the      *)
(* record; delete, modify and display fail NotFound exactly when the id    *)
(* is not stored; after a successful delete a display of the id fails      *)
(* NotFound.                                                               *)

ValidHotelFields(a) ==
    /\ a.hotel_id \notin BlankStrings
    /\ a.name \notin BlankStrings
    /\ a.rooms_total >= 1

ValidCustomerFields(a) ==
    /\ a.customer_id \notin BlankStrings
    /\ a.name \notin BlankStrings
    /\ a.email = "a@x"

\* the outcome res of a create of the record rec with arguments a
CreateOutcome(res, stored, valid, file, file2, rec) ==
    /\ stored => (res.ret = FALSE /\ res.error = "DuplicateId" /\ file2 = file)
    /\ (~stored /\ valid) => (res.ret = TRUE /\ file2 = Append(file, rec))

HotelOutcomes ==
    LET a == last'.args
        res == last'.result
        stored == HasId(hotels, "hotel_id", a.hotel_id)
        shown == display_hotel(Store(hotels', customers', reservations'), a.hotel_id)
    IN  /\ last'.op = "create_hotel" =>
              CreateOutcome(res, stored, ValidHotelFields(a), hotels, hotels',
                  [hotel_id |-> a.hotel_id, name |-> a.name, rooms_total |-> a.rooms_total])
        /\ last'.op \in {"delete_hotel", "modify_hotel", "display_hotel"} =>
              (res.error = "NotFound" <=> ~stored)
        /\ last'.op \in {"delete_hotel", "modify_hotel"} =>
              (~stored => res.ret = FALSE)
        /\ last'.op = "display_hotel" => (res.ret = None <=> ~stored)
        /\ (last'.op = "delete_hotel" /\ stored) =>
              /\ res.ret = TRUE
              /\ ~HasId(hotels', "hotel_id", a.hotel_id)
              /\ shown.ret = None
              /\ shown.error = "NotFound"

CustomerOutcomes ==
    LET a == last'.args
        res == last'.result
        stored == HasId(customers, "customer_id", a.customer_id)
        shown == display_customer(Store(hotels', customers', reservations'),
                                  a.customer_id)
    IN  /\ last'.op = "create_customer" =>
              CreateOutcome(res, stored, ValidCustomerFields(a), customers, customers',
                  [customer_id |-> a.customer_id, name |-> a.name, email |-> a.email])
        /\ last'.op \in {"delete_customer", "modify_customer", "display_customer"} =>
              (res.error = "NotFound" <=> ~stored)
        /\ last'.op \in {"delete_customer", "modify_customer"} =>
              (~stored => res.ret = FALSE)
        /\ last'.op = "display_customer" => (res.ret = None <=> ~stored)
        /\ (last'.op = "delete_customer" /\ stored) =>
              /\ res.ret = TRUE
              /\ ~HasId(customers', "customer_id", a.customer_id)
              /\ shown.ret = None
              /\ shown.error = "NotFound"

CrudOutcomes == [][last' # Idle => (HotelOutcomes /\ CustomerOutcomes)]_vars

\* one of two hotels was deleted
CrudWitness ==
    /\ Succeeded("delete_hotel")
    /\ Len(hotels) = 1

---------------------------------------------------------------------------
(* Records of a file that the loaders keep *)

LoadableHotels(file) ==
    {i \in 1..Len(file) :
        /\ DOMAIN file[i] = {"hotel_id", "name", "rooms_total"}
        /\ file[i].hotel_id \notin BlankStrings
        /\ file[i].name \notin BlankStrings
        /\ file[i].rooms_total >= 1}

LoadableCustomers(file) ==
    {i \in 1..Len(file) :
        /\ DOMAIN file[i] = {"customer_id", "name", "email"}
        /\ file[i].customer_id \notin BlankStrings
        /\ file[i].name \notin BlankStrings
        /\ file[i].email \in Emails}

\* the place a kept record of the file has in the loaded list
PlaceOf(kept, i) == Cardinality({j \in kept : j <= i})

\* the argument given, or else the stored value
Override(arg, stored) == IF arg = Unset THEN stored ELSE Val(arg)

NoFiles == Store(<<>>, <<>>, <<>>)

\* a modify_hotel step: the first loadable record with the id is rebuilt
\* from the stored values and the arguments given
ModifyHotelStep ==
    LET a == last'.args
        kept == LoadableHotels(hotels)
        found == {i \in kept : hotels[i].hotel_id = a.hotel_id}
        old == hotels[Min(found)]
        name == Override(a.name, old.name)
        rooms == Override(a.rooms_total, old.rooms_total)
    IN  /\ customers' = customers
        /\ reservations' = reservations
        /\ IF found = {} THEN last'.result.ret = FALSE /\ hotels' = hotels
           ELSE /\ last'.result.ret = (name \notin BlankStrings /\ rooms >= 1)
                /\ last'.result.ret
                      = create_hotel(NoFiles, old.hotel_id, name, rooms).ret
                /\ IF last'.result.ret
                   THEN hotels'[PlaceOf(kept, Min(found))]
                           = [hotel_id |-> old.hotel_id, name |-> name,
                              rooms_total |-> rooms]
                   ELSE hotels' = hotels

ModifyCustomerStep ==
    LET a == last'.args
        kept == LoadableCustomers(customers)
        found == {i \in kept : customers[i].customer_id = a.customer_id}
        old == customers[Min(found)]
        name == Override(a.name, old.name)
        email == Override(a.email, old.email)
    IN  /\ hotels' = hotels
        /\ reservations' = reservations
        /\ IF found = {} THEN last'.result.ret = FALSE /\ customers' = customers
           ELSE /\ last'.result.ret = (name \notin BlankStrings /\ email \in Emails)
                /\ last'.result.ret
                      = create_customer(NoFiles, old.customer_id, name, email).ret
                /\ IF last'.result.ret
                   THEN customers'[PlaceOf(kept, Min(found))]
                           = [customer_id |-> old.customer_id, name |-> name,
                              email |-> email]
                   ELSE customers' = customers

---------------------------------------------------------------------------
(* C11: modify_hotel / modify_customer on a stored id keep the stored      *)
(* value of every field not given, replace every field given, keep the id  *)
(* and validate the rebuilt entity as on creation: an invalid rebuilt      *)
(* entity makes the call fail with the collection unchanged.  A record     *)
(* whose stored values do not pass validation is not modified, whatever    *)
(* the arguments.                                                          *)

ModifyRebuilds ==
    [][/\ last'.op = "modify_hotel" => ModifyHotelStep
       /\ last'.op = "modify_customer" => ModifyCustomerStep]_vars

\* a hotel named B got the largest rooms_total and kept its name
ModifyRebuildsWitness ==
    /\ Succeeded("modify_hotel")
    /\ last.args.name = Unset
    /\ last.args.rooms_total = Some(MaxRooms)
    /\ \E i \in 1..Len(hotels) :
          hotels[i] = [hotel_id |-> last.args.hotel_id, name |-> "B",
                       rooms_total |-> MaxRooms]

---------------------------------------------------------------------------
(* C12: two concurrent create_reservation calls for the same hotel that    *)
(* load the same reservations before either saves can both return success  *)
(* with requests whose combined rooms exceed the availability on a day     *)
(* both stays contain.  (Original statement) the hotel is then left        *)
(* over-committed: its stored reservations exceed rooms_total on some day. *)

\* both calls returned
BothDone == procs # <<>> /\ \A p \in Callers : procs[p].pc = "done"

\* the reservations file as both callers loaded it
Loaded(p) == Snapshot(procs[p]).reservations.items

\* both calls succeeded on the same loaded reservations, for stays that
\* share a day on which the two requests together ask for more rooms than
\* were left
Raced ==
    /\ BothDone
    /\ \A p \in Callers : procs[p].result.ret = TRUE
    /\ procs[1].reservations = procs[2].reservations
    /\ procs[1].args.hotel_id = procs[2].args.hotel_id
    /\ \E d \in DaysIn(procs[1].args.check_in, procs[1].args.check_out)
                  \cap DaysIn(procs[2].args.check_in, procs[2].args.check_out) :
          BookedOn(Loaded(1), procs[1].args.hotel_id, d)
              + procs[1].args.rooms + procs[2].args.rooms
                  > HotelTotal(hotels, procs[1].args.hotel_id)

OverCommitted(hotel_id) ==
    \E d \in Days : BookedOn(reservations, hotel_id, d) > HotelTotal(hotels, hotel_id)

RaceOverCommits == Raced => OverCommitted(procs[1].args.hotel_id)

(* C12 as amended: after such a race the save that comes second has        *)
(* overwritten the first, so the file holds the loaded reservations and    *)
(* exactly one of the two new ones, and at no point do the stored          *)
(* reservations of the hotel exceed rooms_total.                           *)

RaceLosesReservation ==
    /\ CapacityInvariant
    /\ Raced => \E p \in Callers :
                    reservations = Append(Loaded(p), StoredAs(procs[p].args))

\* both calls succeeded for distinct reservation ids in a hotel that had
\* room for only one of them
RaceWitness ==
    /\ Raced
    /\ procs[1].args.reservation_id # procs[2].args.reservation_id
    /\ Len(reservations) = Len(Loaded(1)) + 1

---------------------------------------------------------------------------
(* C13: loading never fails.  read_json_list returns the empty list for a  *)
(* file that is missing, empty, malformed or not an array, and for an      *)
(* array the object elements in their order; the entity loaders return     *)
(* the entities of the records that can be constructed, in their order.    *)

Objects(items) == SelectSeq(items, LAMBDA item : "nondict" \notin DOMAIN item)

\* the entities of the objects of the file from which from_dict builds one
Constructed(file, op) ==
    LET objs == IF file.kind = "array" THEN Objects(file.items) ELSE <<>>
        made == [i \in 1..Len(objs) |->
                    CASE op = "load_hotels" -> Hotel_from_dict(objs[i])
                      [] op = "load_customers" -> Customer_from_dict(objs[i])
                      [] op = "load_reservations" -> Reservation_from_dict(objs[i])]
    IN  SelectSeq(made, LAMBDA e : "error" \notin DOMAIN e)

Loaders == {"load_hotels", "load_customers", "load_reservations"}

LoadResult ==
    /\ last.op = "read_json_list" =>
          last.result.ret = IF last.args.file.kind = "array"
                            THEN Objects(last.args.file.items) ELSE <<>>
    /\ last.op \in Loaders => last.result.ret = Constructed(last.args.file, last.op)

LoadNeverFails ==
    last.op \in Loaders \cup {"read_json_list"} =>
        last.result.raises = "none" /\ LoadResult

\* what does hold: a load fails only on a file that is not UTF-8 text or,
\* for a loader, on a record whose room count is the float Infinity, and
\* a load that returns gives the list stated
HasInfinity(file, key) ==
    /\ file.kind = "array"
    /\ \E i \in 1..Len(file.items) :
          Typed(key, "float") \in DOMAIN file.items[i]
              /\ file.items[i][Typed(key, "float")] = Infinity

LoadFailsOnlyOn ==
    last.op \in Loaders \cup {"read_json_list"} =>
        IF last.result.raises = "none" THEN LoadResult
        ELSE \/ last.args.file.kind = "undecodable"
             \/ last.op = "load_hotels" /\ HasInfinity(last.args.file, "rooms_total")
             \/ last.op = "load_reservations" /\ HasInfinity(last.args.file, "rooms")

---------------------------------------------------------------------------
(* C14: write_json_list never raises to its caller; when it returns        *)
(* without having replaced the file, the file holds what it held before    *)
(* the call ("[]" if it did not exist); and the file never holds a         *)
(* partially written collection.                                           *)

Writing == writer # Idle

SaveNeverRaises == Writing => writer.pc # "raised"

SaveFailureKeepsContent ==
    (Writing /\ writer.pc = "returned" /\ ~writer.replaced) =>
        disk.target = IF writer.before = Missing THEN JsonArray(<<>>)
                      ELSE writer.before

SaveNeverPartial == disk.target # Partial

\* what does hold: a failed save leaves the file as it was, or holding
\* "[]" if it did not exist and could be created, and the file is never
\* partially written
SaveKeepsContent ==
    /\ SaveNeverPartial
    /\ (Writing /\ ~writer.replaced) =>
          disk.target \in {writer.before, ensure_file_exists(writer.before)}

---------------------------------------------------------------------------
(* C15: round trip.  (Original statement) for every fields map that        *)
(* from_dict accepts, to_dict(from_dict(fields)) equals the fields map.    *)

Constructors == {"Hotel.from_dict", "Customer.from_dict", "Reservation.from_dict"}

Accepted == last.op \in Constructors /\ last.result.error = "none"

RoundTripOfAccepted == Accepted => last.result.back = last.args.fields

(* C15 as amended: the round trip gives the fields map back when the map   *)
(* holds the members of the entity and no other, each with a value of the  *)
(* entity's type.  For any other accepted map it gives the map of the same *)
(* entity with those members: from_dict builds the same entity from it.    *)

Members(op) ==
    CASE op = "Hotel.from_dict" -> {"hotel_id", "name", "rooms_total"}
      [] op = "Customer.from_dict" -> {"customer_id", "name", "email"}
      [] op = "Reservation.from_dict" ->
            {"reservation_id", "hotel_id", "customer_id", "check_in", "check_out",
             "rooms"}

Rebuilt(op, fields) ==
    CASE op = "Hotel.from_dict" -> Hotel_from_dict(fields)
      [] op = "Customer.from_dict" -> Customer_from_dict(fields)
      [] op = "Reservation.from_dict" -> Reservation_from_dict(fields)

RoundTripOfTyped ==
    Accepted =>
        /\ (DOMAIN last.args.fields = Members(last.op))
              <=> (last.result.back = last.args.fields)
        /\ DOMAIN last.result.back = Members(last.op)
        /\ Rebuilt(last.op, last.result.back) = last.result.entity

\* a reservation came back as it was given
RoundTripWitness ==
    /\ Accepted
    /\ last.op = "Reservation.from_dict"
    /\ last.result.back = last.args.fields
    /\ last.result.entity.check_in = 1
    /\ last.result.entity.check_out = MaxDay

---------------------------------------------------------------------------
(* C16: in every state reachable from empty files every stored             *)
(* reservation has check_out after check_in, at least one room and         *)
(* non-blank ids; a create_reservation request for an unused id, a stored  *)
(* hotel and a stored customer whose check_out is not after its check_in   *)
(* or whose rooms are not positive fails with InvalidEntity, whatever the  *)
(* capacity, and nothing is written.                                       *)

ValidReservationRecord(rec) ==
    /\ DayOf(rec.check_in) < DayOf(rec.check_out)
    /\ rec.rooms >= 1
    /\ rec.reservation_id \notin BlankStrings
    /\ rec.hotel_id \notin BlankStrings
    /\ rec.customer_id \notin BlankStrings

\* a request that passes the three lookups and has an empty or reversed
\* stay or no rooms
IllFormed(q) ==
    /\ ~HasId(reservations, "reservation_id", q.reservation_id)
    /\ HasId(hotels, "hotel_id", q.hotel_id)
    /\ HasId(customers, "customer_id", q.customer_id)
    /\ q.check_out <= q.check_in \/ q.rooms <= 0

StoredReservationsValid ==
    /\ [](\A i \in 1..Len(reservations) : ValidReservationRecord(reservations[i]))
    /\ [][(last'.op = "create_reservation" /\ IllFormed(last'.args)) =>
             /\ last'.result.ret = FALSE
             /\ last'.result.error = "InvalidEntity"
             /\ <<hotels, customers, reservations>>'
                    = <<hotels, customers, reservations>>]_vars

\* a request for one room over an empty stay was rejected as invalid while
\* the hotel was full on that day
StoredReservationsValidWitness ==
    /\ Called("create_reservation")
    /\ last.result.error = "InvalidEntity"
    /\ last.args.check_in = last.args.check_out
    /\ last.args.rooms = 1
    /\ HasId(hotels, "hotel_id", last.args.hotel_id)
    /\ BookedOn(reservations, last.args.hotel_id, last.args.check_in)
          = HotelTotal(hotels, last.args.hotel_id)

---------------------------------------------------------------------------
(* C17: life of a reservation id.  It becomes stored only by a successful  *)
(* create_reservation of that id and stops being stored only by a          *)
(* successful cancel_reservation of that id; while it is stored no         *)
(* operation changes its record; once cancelled nothing of it is left, so  *)
(* a create_reservation with that id has the outcome it has with an id     *)
(* that was never used.                                                    *)

RecordsOf(file, id) ==
    {file[i] : i \in {j \in 1..Len(file) : file[j].reservation_id = id}}

NeverUsed == "R9"

\* a create_reservation request has the same outcome under the id and
\* under an id never used, and stores the same record but for the id
SameAsNeverUsed(S, id) ==
    \A q \in WellFormedRequests :
        LET used == create_reservation(S, id, q.hotel_id, q.customer_id,
                                       q.check_in, q.check_out, q.rooms)
            fresh == create_reservation(S, NeverUsed, q.hotel_id, q.customer_id,
                                        q.check_in, q.check_out, q.rooms)
            n == Len(fresh.store.reservations.items)
        IN  /\ Outcome(used) = Outcome(fresh)
            /\ used.ret =>
                  used.store = [fresh.store EXCEPT
                                   !.reservations.items[n].reservation_id = id]

LifecycleOf(id) ==
    LET was == RecordsOf(reservations, id)
        is == RecordsOf(reservations', id)
        created == /\ last'.op = "create_reservation"
                   /\ last'.result.ret = TRUE
                   /\ last'.args.reservation_id = id
        cancelled == /\ last'.op = "cancel_reservation"
                     /\ last'.result.ret = TRUE
                     /\ last'.args.reservation_id = id
    IN  /\ created <=> (was = {} /\ is # {})
        /\ cancelled <=> (was # {} /\ is = {})
        /\ created => is = {StoredAs(last'.args)}
        /\ (was # {} /\ ~cancelled) => is = was
        /\ cancelled => SameAsNeverUsed(Store(hotels', customers', reservations'), id)

ReservationLifecycle ==
    [][\A id \in ids.reservations : LifecycleOf(id)]_vars

\* a reservation was cancelled while another one stays stored
ReservationLifecycleWitness ==
    /\ Succeeded("cancel_reservation")
    /\ Len(reservations) = 1
    /\ reservations[1].reservation_id # last.args.reservation_id
    /\ HasId(hotels, "hotel_id", reservations[1].hotel_id)

---------------------------------------------------------------------------
(* C18: delete_hotel and delete_customer do not cascade.  A successful     *)
(* delete changes only its own collection; every reservation that names    *)
(* the deleted hotel or customer stays stored as it was and can be         *)
(* cancelled by its id; a create_reservation that names the deleted hotel  *)
(* or customer fails, with NotFound when its reservation id is not in use. *)

\* after the delete of the entity id named by the field of a reservation
Orphans(field, id) ==
    LET after == Store(hotels', customers', reservations')
    IN  /\ reservations' = reservations
        /\ \A i \in 1..Len(reservations) :
              reservations[i][field] = id =>
                  LET undone == cancel_reservation(after, reservations[i].reservation_id)
                  IN  /\ undone.ret = TRUE
                      /\ undone.store.reservations.items
                            = SelectSeq(reservations,
                                        LAMBDA rec : rec # reservations[i])
        /\ \A q \in ReservationRequests :
              q[field] = id =>
                  LET r == create_reservation(after, q.reservation_id, q.hotel_id,
                                              q.customer_id, q.check_in, q.check_out,
                                              q.rooms)
                  IN  /\ r.ret = FALSE
                      /\ r.store = after
                      /\ ~HasId(reservations, "reservation_id", q.reservation_id)
                            => r.error \in {"HotelNotFound", "CustomerNotFound"}
                      /\ (~HasId(reservations, "reservation_id", q.reservation_id)
                              /\ field = "hotel_id") => r.error = "HotelNotFound"

DeletesDoNotCascade ==
    [][/\ (last'.op = "delete_hotel" /\ last'.result.ret = TRUE) =>
             /\ customers' = customers
             /\ ~HasId(hotels', "hotel_id", last'.args.hotel_id)
             /\ Orphans("hotel_id", last'.args.hotel_id)
       /\ (last'.op = "delete_customer" /\ last'.result.ret = TRUE) =>
             /\ hotels' = hotels
             /\ ~HasId(customers', "customer_id", last'.args.customer_id)
             /\ Orphans("customer_id", last'.args.customer_id)]_vars

\* a hotel was deleted that a stored reservation names
DeletesDoNotCascadeWitness ==
    /\ Succeeded("delete_hotel")
    /\ HasId(reservations, "hotel_id", last.args.hotel_id)
    /\ HasId(customers, "customer_id", "C1")

---------------------------------------------------------------------------
(* C19: modify_hotel performs no retroactive capacity check.  Its outcome  *)
(* and the hotels it stores are those it has with no customers and no      *)
(* reservations stored, so a rooms_total below the rooms booked on some    *)
(* day is accepted, and the reservations stay as they were.  While a hotel *)
(* is over-committed on a day, every create_reservation for that hotel     *)
(* whose stay contains the day fails and writes nothing, and the failure   *)
(* is InsufficientCapacity for every request that passes the checks made   *)
(* before the capacity check.                                              *)

\* the days on which the stored reservations of a stored hotel take more
\* rooms than the hotel has
OverCommittedDays(h) ==
    {d \in Days : BookedOn(reservations, h.hotel_id, d) > h.rooms_total}

\* the request passes the checks that create_reservation makes before the
\* capacity check
PassesEarlierChecks(q) ==
    /\ ~HasId(reservations, "reservation_id", q.reservation_id)
    /\ HasId(hotels, "hotel_id", q.hotel_id)
    /\ HasId(customers, "customer_id", q.customer_id)
    /\ q.reservation_id \notin BlankStrings
    /\ q.check_in < q.check_out
    /\ q.rooms >= 1

OverCommittedRefuses ==
    \A i \in 1..Len(hotels) : \A d \in OverCommittedDays(hotels[i]) :
        \A q \in ReservationRequests :
            (q.hotel_id = hotels[i].hotel_id /\ d \in DaysIn(q.check_in, q.check_out)) =>
                LET r == create_reservation(Files, q.reservation_id, q.hotel_id,
                                            q.customer_id, q.check_in, q.check_out,
                                            q.rooms)
                IN  /\ r.ret = FALSE
                    /\ r.store = Files
                    /\ PassesEarlierChecks(q) <=> r.error = "InsufficientCapacity"

ModifyHotelIgnoresReservations ==
    LET a == last'.args
        alone == modify_hotel(Store(hotels, <<>>, <<>>), a.hotel_id, a.name,
                              a.rooms_total)
    IN  last'.op = "modify_hotel" =>
            /\ last'.result = Outcome(alone)
            /\ hotels' = alone.store.hotels.items
            /\ reservations' = reservations
            /\ customers' = customers

NoRetroactiveCheck ==
    /\ [][ModifyHotelIgnoresReservations]_vars
    /\ [](OverCommittedRefuses)

\* rooms_total was lowered below the rooms booked on a day, and a request
\* for one room on that day passes every check before the capacity check
NoRetroactiveCheckWitness ==
    /\ Succeeded("modify_hotel")
    /\ last.args.rooms_total # Unset
    /\ \E i \in 1..Len(hotels) :
          /\ hotels[i].hotel_id = last.args.hotel_id
          /\ hotels[i].rooms_total = Val(last.args.rooms_total)
          /\ \E d \in OverCommittedDays(hotels[i]) : \E q \in ReservationRequests :
                /\ q.hotel_id = hotels[i].hotel_id
                /\ d \in DaysIn(q.check_in, q.check_out)
                /\ PassesEarlierChecks(q)

---------------------------------------------------------------------------
(* C20: a successful modify_hotel / modify_customer replaces exactly the   *)
(* record it located, the first loaded record with the id, at that         *)
(* record's place: the loaded collection keeps its number and order of     *)
(* records and every other record is stored as it was loaded, also when    *)
(* several loaded records have the id.                                     *)

\* the first place of the loaded list whose record has the id in the field
FirstPlace(loaded, field, id) ==
    Min({i \in 1..Len(loaded) : loaded[i][field] = id})

\* the file after the step holds the loaded records, every one at its
\* place, but for the records at the places given
KeptBut(after, loaded, places) ==
    /\ Len(after) = Len(loaded)
    /\ \A i \in 1..Len(loaded) : i \notin places => after[i] = loaded[i]

ModifyReplacesLocated ==
    [][/\ (last'.op = "modify_hotel" /\ last'.result.ret = TRUE) =>
             LET loaded == load_hotels(JsonArray(hotels))
                 place == FirstPlace(loaded, "hotel_id", last'.args.hotel_id)
             IN  /\ KeptBut(hotels', loaded, {place})
                 /\ hotels'[place].hotel_id = last'.args.hotel_id
       /\ (last'.op = "modify_customer" /\ last'.result.ret = TRUE) =>
             LET loaded == load_customers(JsonArray(customers))
                 place == FirstPlace(loaded, "customer_id", last'.args.customer_id)
             IN  /\ KeptBut(customers', loaded, {place})
                 /\ customers'[place].customer_id = last'.args.customer_id]_vars

\* what the code does: every loaded record with the id is replaced by the
\* one record rebuilt from the first of them; the others are kept in place
ModifyReplacesEveryMatch ==
    [][/\ (last'.op = "modify_hotel" /\ last'.result.ret = TRUE) =>
             LET loaded == load_hotels(JsonArray(hotels))
                 id == last'.args.hotel_id
                 places == {i \in 1..Len(loaded) : loaded[i].hotel_id = id}
                 place == FirstPlace(loaded, "hotel_id", id)
             IN  /\ KeptBut(hotels', loaded, places)
                 /\ \A i \in places : hotels'[i] = hotels'[place]
       /\ (last'.op = "modify_customer" /\ last'.result.ret = TRUE) =>
             LET loaded == load_customers(JsonArray(customers))
                 id == last'.args.customer_id
                 places == {i \in 1..Len(loaded) : loaded[i].customer_id = id}
                 place == FirstPlace(loaded, "customer_id", id)
             IN  /\ KeptBut(customers', loaded, places)
                 /\ \A i \in places : customers'[i] = customers'[place]]_vars

---------------------------------------------------------------------------
(* C21: referential integrity at creation.  In every state reached from    *)
(* empty files by operations other than delete_hotel and delete_customer,  *)
(* the hotel_id and customer_id of every stored reservation are the ids of *)
(* a stored hotel and of a stored customer.                                *)

ReferentialIntegrity ==
    \A i \in 1..Len(reservations) :
        /\ HasId(hotels, "hotel_id", reservations[i].hotel_id)
        /\ HasId(customers, "customer_id", reservations[i].customer_id)

\* the hotel of a stored reservation was renamed after the reservation was
\* made
ReferentialIntegrityWitness ==
    /\ Succeeded("modify_hotel")
    /\ last.args.name = Some("B")
    /\ \E i \in 1..Len(reservations) :
          /\ reservations[i].hotel_id = last.args.hotel_id
          /\ HasId(customers, "customer_id", reservations[i].customer_id)

---------------------------------------------------------------------------
(* C22: success implies persisted.  When create_hotel, create_customer or  *)
(* create_reservation returns success the created record is in the stored  *)
(* collection: a display that follows returns it and a create of the same  *)
(* id that follows fails.  When cancel_reservation, delete_hotel or        *)
(* delete_customer returns success no record with the id is stored.  This  *)
(* is claimed for every execution, those in which a save fails included.   *)

\* the files after the step
FilesAfter == Store(hotels', customers', reservations')

SuccessImpliesPersisted ==
    [][LET a == last'.args
       IN  (last' # Idle /\ last'.result.error = "none") =>
              /\ last'.op = "create_hotel" =>
                    /\ HasId(hotels', "hotel_id", a.hotel_id)
                    /\ display_hotel(FilesAfter, a.hotel_id).ret
                          = [hotel_id |-> a.hotel_id, name |-> a.name,
                             rooms_total |-> a.rooms_total]
                    /\ create_hotel(FilesAfter, a.hotel_id, a.name,
                                    a.rooms_total).ret = FALSE
              /\ last'.op = "create_customer" =>
                    /\ HasId(customers', "customer_id", a.customer_id)
                    /\ display_customer(FilesAfter, a.customer_id).ret
                          = [customer_id |-> a.customer_id, name |-> a.name,
                             email |-> a.email]
                    /\ create_customer(FilesAfter, a.customer_id, a.name,
                                       a.email).ret = FALSE
              /\ last'.op = "create_reservation" =>
                    /\ HasId(reservations', "reservation_id", a.reservation_id)
                    /\ create_reservation(FilesAfter, a.reservation_id, a.hotel_id,
                                          a.customer_id, a.check_in, a.check_out,
                                          a.rooms).error = "DuplicateId"
              /\ last'.op = "cancel_reservation" =>
                    ~HasId(reservations', "reservation_id", a.reservation_id)
              /\ last'.op = "delete_hotel" =>
                    ~HasId(hotels', "hotel_id", a.hotel_id)
              /\ last'.op = "delete_customer" =>
                    ~HasId(customers', "customer_id", a.customer_id)]_vars

\* what the code does: after a call that reports success the files hold
\* what the operation meant to save, or else, the save having failed, what
\* they held before the call
SuccessSavesOrKeeps ==
    [][last' # Idle =>
          \/ <<hotels', customers', reservations'>> = <<hotels, customers, reservations>>
          \/ /\ last'.result.error = "none"
             /\ last'.op \in {"create_hotel", "create_customer", "create_reservation",
                              "cancel_reservation", "delete_hotel", "delete_customer"}]_vars

---------------------------------------------------------------------------
(* C23: lost update under interleaving.  Every save of a reservation       *)
(* mutation writes the saver's own copy of the list, the one it loaded     *)
(* with its own change applied, whatever the file holds by then.  So when  *)
(* two calls, two creates or a create and a cancel, load before either     *)
(* saves and both return success, the file afterwards is the copy of the   *)
(* call that saved later: the reservation the earlier call created is not  *)
(* stored, or the reservation it cancelled is stored again.                *)

IsCreate(p) == "rooms" \in DOMAIN procs[p].args

\* the reservations file as caller p loaded it
LoadedBy(p) ==
    [i \in 1..Len(procs[p].reservations) |-> Reservation_to_dict(procs[p].reservations[i])]

\* the copy caller p saves
OwnCopy(p) ==
    IF IsCreate(p) THEN Append(LoadedBy(p), StoredAs(procs[p].args))
    ELSE SelectSeq(LoadedBy(p),
                   LAMBDA rec : rec.reservation_id # procs[p].args.reservation_id)

\* caller p saves in this step
Saves(p) == procs[p].pc \in {"save", "cancel_save"} /\ procs'[p].pc = "done"

\* both calls returned success on the same loaded list, one of them at
\* least a create
BothSucceeded ==
    /\ BothDone
    /\ \A p \in Callers : procs[p].result.ret = TRUE
    /\ procs[1].reservations = procs[2].reservations
    /\ \E p \in Callers : IsCreate(p)

\* the change of caller e is undone in the file that caller p wrote
Lost(e, p) ==
    /\ reservations = OwnCopy(p)
    /\ IsCreate(e) =>
          ((\E i \in 1..Len(reservations) : reservations[i] = StoredAs(procs[e].args))
              => (IsCreate(p) /\ procs[p].args = procs[e].args))
    /\ ~IsCreate(e) => HasId(reservations, "reservation_id", procs[e].args.reservation_id)

LostUpdate ==
    /\ [][\A p \in Callers : Saves(p) => reservations' = OwnCopy(p)]_vars
    /\ [](BothSucceeded => \E e \in Callers : \E p \in Callers \ {e} : Lost(e, p))

\* one call cancelled R0 and the other created R1, both with success, and
\* the file holds R0 again together with R1
LostUpdateWitness ==
    /\ BothSucceeded
    /\ \E e \in Callers : \E p \in Callers \ {e} :
          /\ ~IsCreate(e)
          /\ procs[e].args.reservation_id = "R0"
          /\ procs[p].args.reservation_id = "R1"
          /\ Len(reservations) = 2
          /\ Lost(e, p)

---------------------------------------------------------------------------
(* C24: id uniqueness.  In every state reached from empty files by service *)
(* operations made one after the other, no two stored hotels have the same *)
(* hotel_id, no two stored customers the same customer_id and no two       *)
(* stored reservations the same reservation_id, whatever their hotels.     *)

UniqueIn(file, field) ==
    \A i \in 1..Len(file) : \A j \in 1..Len(file) :
        file[i][field] = file[j][field] => i = j

IdsUnique ==
    /\ UniqueIn(hotels, "hotel_id")
    /\ UniqueIn(customers, "customer_id")
    /\ UniqueIn(reservations, "reservation_id")

\* two hotels are stored and a reservation of one of them; a request under
\* the stored reservation id for the other hotel was just refused
IdsUniqueWitness ==
    /\ Called("create_reservation")
    /\ last.result.error = "DuplicateId"
    /\ Len(hotels) = 2
    /\ Len(customers) = 1
    /\ Len(reservations) = 1
    /\ reservations[1].reservation_id = last.args.reservation_id
    /\ reservations[1].hotel_id # last.args.hotel_id
    /\ HasId(hotels, "hotel_id", last.args.hotel_id)

---------------------------------------------------------------------------
(* C25: invalid stored data is purged by the next successful write.  After *)
(* a successful create, modify, delete or cancel on a collection whose     *)
(* file held entries that are dropped at load (elements that are not       *)
(* objects, objects that fail validation, or a file that is empty,         *)
(* malformed or no array), the file holds the valid records that were      *)
(* loaded, in their order, with the change applied, and nothing else.      *)
(* After a display or a failed operation the file holds what it held.      *)

LoadableReservations(file) ==
    {i \in 1..Len(file) :
        /\ DOMAIN file[i] = {"reservation_id", "hotel_id", "customer_id",
                             "check_in", "check_out", "rooms"}
        /\ ValidReservationRecord(file[i])}

Loadable(path, file) ==
    CASE path = "hotels" -> LoadableHotels(file)
      [] path = "customers" -> LoadableCustomers(file)
      [] path = "reservations" -> LoadableReservations(file)

\* the records of the file at the places kept, in their order
Kept(file, kept) ==
    [k \in 1..Cardinality(kept) |-> file[CHOOSE i \in kept : PlaceOf(kept, i) = k]]

IdField(path) ==
    CASE path = "hotels" -> "hotel_id"
      [] path = "customers" -> "customer_id"
      [] path = "reservations" -> "reservation_id"

\* the record a create call stores
Created(call) ==
    IF call.op = "create_reservation" THEN StoredAs(call.args) ELSE call.args

\* the list after is the list valid with the change of the call applied
Applied(call, path, valid, after) ==
    LET field == IdField(path)
        id == call.args[field]
    IN  CASE call.op \in {"create_hotel", "create_customer", "create_reservation"} ->
                after = Append(valid, Created(call))
          [] call.op \in {"delete_hotel", "delete_customer", "cancel_reservation"} ->
                after = SelectSeq(valid, LAMBDA rec : rec[field] # id)
          [] call.op \in {"modify_hotel", "modify_customer"} ->
                /\ Len(after) = Len(valid)
                /\ \A i \in 1..Len(valid) :
                      IF valid[i][field] = id THEN after[i][field] = id
                      ELSE after[i] = valid[i]

Displays == {"display_hotel", "display_customer"}

PurgedByWrite ==
    last # Idle =>
        IF last.result.error = "none" /\ last.op \notin Displays
        THEN /\ disk.target.kind = "array"
             /\ Loadable(disk.path, disk.target.items) = 1..Len(disk.target.items)
             /\ Applied(last, disk.path,
                        Kept(Items(disk.before),
                             Loadable(disk.path, Items(disk.before))),
                        disk.target.items)
        ELSE disk.target = disk.before

\* a hotel was created in a file of three elements of which one was not an
\* object and one an invalid hotel: the file now holds the valid hotel and
\* the new one
PurgedByWriteWitness ==
    /\ Succeeded("create_hotel")
    /\ disk.before.kind = "array"
    /\ Len(disk.before.items) = 3
    /\ \E i \in 1..3 : disk.before.items[i] = [nondict |-> TRUE]
    /\ \E i \in 1..3 : disk.before.items[i]
                          = [hotel_id |-> "H2", name |-> "A", rooms_total |-> 0]
    /\ Len(disk.target.items) = 2

---------------------------------------------------------------------------
(* C26: the admission check is conservative.  It counts the rooms of every *)
(* stored reservation of the hotel whose stay shares a day with the        *)
(* requested range, which is at least the rooms booked on any one day of   *)
(* the range.  So a request that is admitted fits on every day of its      *)
(* range, while a request can be refused with InsufficientCapacity         *)
(* although it fits on every day of its range.                             *)

\* the request fits on every day of its range
FitsEveryDay(file, q) ==
    \A d \in DaysIn(q.check_in, q.check_out) :
        BookedOn(file, q.hotel_id, d) + q.rooms <= HotelTotal(hotels, q.hotel_id)

ConservativeAdmission ==
    [][(last'.op = "create_reservation" /\ PassesChecks(last'.args)) =>
          LET q == last'.args
              counted == Committed(reservations, q.hotel_id, q.check_in, q.check_out)
          IN  /\ \A d \in DaysIn(q.check_in, q.check_out) :
                    BookedOn(reservations, q.hotel_id, d) <= counted
              /\ (last'.result.error = "InsufficientCapacity")
                    <=> (q.rooms + counted > HotelTotal(hotels, q.hotel_id))
              /\ last'.result.ret = TRUE => FitsEveryDay(reservations, q)
              /\ last'.result.ret = FALSE => last'.result.error = "InsufficientCapacity"]_vars

\* a request was refused although it fits on every day of its range: two
\* stored stays, one after the other, each share a day with the range
ConservativeAdmissionWitness ==
    /\ Called("create_reservation")
    /\ last.result.error = "InsufficientCapacity"
    /\ FitsEveryDay(reservations, last.args)
    /\ \E i \in 1..Len(reservations) : \E j \in 1..Len(reservations) :
          /\ reservations[i].hotel_id = last.args.hotel_id
          /\ reservations[j].hotel_id = last.args.hotel_id
          /\ DayOf(reservations[i].check_out) = DayOf(reservations[j].check_in)
          /\ Stay(reservations[i]) \cap DaysIn(last.args.check_in, last.args.check_out) # {}
          /\ Stay(reservations[j]) \cap DaysIn(last.args.check_in, last.args.check_out) # {}

====
